---------------------------- MODULE Spec2Model ----------------------------
(***************************************************************************)
(* A model of the 2000.news backend: the Tournament Lambda                 *)
(* (backend/Tournament/tournament.py), the reader's selection               *)
(* (backend/Get/get.py), the Subvert worker's stream handler                *)
(* (backend/Subvert/subvert.py) and the story ingestor                      *)
(* (backend/Fetch/fetch.py).                                                *)
(*                                                                         *)
(* The SubvertedHeadlines table is the variable `headlines`: a function    *)
(* from HeadlineId to the item's attributes.  An absent integer attribute  *)
(* (Rank, TournamentBatch, CrossDayRank, OriginalSubverted) is Absent; an  *)
(* absent Survived is "absent".  A headline's text is a number: 1 is what  *)
(* the Subvert worker wrote, larger numbers are rewrites by the polish      *)
(* model.                                                                  *)
(***************************************************************************)
EXTENDS Integers, Sequences, FiniteSets, TLC

(***************************************************************************)
(* Program constants.                                                      *)
(***************************************************************************)
SURVIVOR_COUNT == 64
FINAL_ROUND_MAX == 20
GROUP_TARGET == 15
ADVANCE_COUNT == 3
POLISH_TOP == 16
CROSS_TODAY_TOP == 64
CROSS_PREV_TOP == 16
FINAL_BATCH == 4
LATE_HOUR == 21

(***************************************************************************)
(* Bounds of the model.                                                    *)
(***************************************************************************)
\* Headlines the store holds at most, and tournament runs that rank.
MaxHeadlines == 70
MaxRuns == 4
\* Stream batches delivered to the Subvert worker.
MaxDeliveries == 2
\* Runs of the Story Ingestor.
MaxFetchRuns == 2
\* Candidates of one call of run_tournament taken by itself.
MaxPool == 130
\* Headlines that arrive one at a time in the partition of any day.
MaxDatedArrivals == 3
\* New headlines a day holds when a run of a chosen pool begins.
MaxNew == 25

Absent == 0
SubvertText == 1

\* Sizes of the bursts of new headlines the Subvert worker adds.
ArrivalSizes == {1, 21, 66}
\* The editorial dates of the model: the three-day window of the cross-day
\* tournament.
Days == 1..3
\* A seed fixes one outcome of the random shuffles, of the judge's replies,
\* of the polish model's replies and of the order in which the thread
\* pool's futures complete.
Seeds == {1, 2}
Slots == {1, 2}

(***************************************************************************)
(* Sequence helpers.                                                       *)
(***************************************************************************)
\* The function f as an explicit table of its values.
Table(f) == f @@ <<>>

\* F applied to the value of v.
Then(v, F(_)) == CHOOSE r \in {F(x) : x \in {v}} : TRUE

Min(a, b) == IF a < b THEN a ELSE b

Max(a, b) == IF a < b THEN b ELSE a

Take(s, n) == SubSeq(s, 1, Min(n, Len(s)))

Drop(s, n) == SubSeq(s, Min(n, Len(s)) + 1, Len(s))

Reverse(s) == [i \in 1..Len(s) |-> s[Len(s) + 1 - i]]

Range(s) == {s[i] : i \in 1..Len(s)}

RECURSIVE Flatten(_)
Flatten(ss) == IF ss = <<>> THEN <<>> ELSE Head(ss) \o Flatten(Tail(ss))

\* How often a list holds a value.
Count(list, x) == Cardinality({i \in 1..Len(list) : list[i] = x})

\* The elements of a finite set of integers in increasing order.
SortedSeq(S) ==
    Then(S, LAMBDA T :
    Then(Table([x \in T |-> Cardinality({y \in T : y < x}) + 1]), LAMBDA place :
        [i \in 1..Cardinality(T) |-> CHOOSE x \in T : place[x] = i]))

\* s without the elements of seen and without the later occurrences of an
\* element (first mention wins).
Dedupe(s, seen) ==
    Then(s, LAMBDA list :
    Then(SortedSeq({i \in 1..Len(list) :
                       /\ list[i] \notin seen
                       /\ \A j \in 1..(i - 1) : list[j] # list[i]}), LAMBDA kept :
        [k \in 1..Len(kept) |-> list[kept[k]]]))

(***************************************************************************)
(* random.shuffle: one of the permutations, fixed by the seed.             *)
(***************************************************************************)
Shuffle(s, seed) == IF seed % 2 = 1 THEN s ELSE Reverse(s)

(***************************************************************************)
(* run_tournament and its helpers.                                         *)
(***************************************************************************)
\* Variant of num_groups: n / 15 rounded up.
NumGroupsRoundedUp(n) == Max(1, (n + GROUP_TARGET - 1) \div GROUP_TARGET)

\* round(n / 15) of Python 3 (round half to even; n / 15 is never a half).
NumGroups(n) == Max(1, (2 * n + GROUP_TARGET) \div (2 * GROUP_TARGET))

\* Variant of distribute_into_groups: the last group takes the remainder.
distribute_remainder_last(items, num_groups) ==
    LET base_size == Len(items) \div num_groups
        start(i) == (i - 1) * base_size
        size(i)  == IF i = num_groups THEN Len(items) - start(i) ELSE base_size
    IN  [i \in 1..num_groups |-> SubSeq(items, start(i) + 1, start(i) + size(i))]

\* distribute_into_groups: num_groups consecutive slices, the first
\* `remainder` of them one longer.
distribute_into_groups(items, num_groups) ==
    LET base_size == Len(items) \div num_groups
        remainder == Len(items) % num_groups
        start(i) == (i - 1) * base_size + Min(i - 1, remainder)
        size(i)  == base_size + (IF i - 1 < remainder THEN 1 ELSE 0)
    IN  [i \in 1..num_groups |-> SubSeq(items, start(i) + 1, start(i) + size(i))]

\* A response text of the judge is a sequence of lines, a line the
\* sequence of its comma-separated pieces, stripped and upper-cased: the
\* index of the letter (A = 1) for a piece of one letter, 0 for any other
\* piece.
NoLetter == 0

\* The labels of a group in the order of a fixed total order of the
\* headlines, the order of their ids.
LabelsByHeadline(group) ==
    Then(group, LAMBDA g :
    Then(Table([i \in 1..Len(g) |->
                   Cardinality({j \in 1..Len(g) : g[j] < g[i]}) + 1]), LAMBDA place :
        Table([k \in 1..Len(g) |-> CHOOSE i \in 1..Len(g) : place[i] = k])))

\* The response of the judge for a group of distinct headlines.  Seed 1
\* answers in label order and seed 2 in reverse label order; seeds 3 and 4
\* are a judge that orders every group by the same total order of the
\* headlines; seed 5 answers "banana"; seed 6 answers a preamble, then the
\* first half of the letters in reverse order with the first of them
\* repeated and a letter beyond the group at the end, then an explanation
\* and a line of all letters; seed 7 answers "A"; seed 8 answers the
\* letter A as often as the group has members.
JudgeResponse(group, seed) ==
    LET n    == Len(group)
        half == (n + 1) \div 2
    IN  CASE seed = 1 -> <<[i \in 1..n |-> i]>>
          [] seed = 2 -> <<[i \in 1..n |-> n + 1 - i]>>
          [] seed \in {3, 4} -> <<LabelsByHeadline(group)>>
          [] seed = 5 -> <<<<NoLetter>>>>
          [] seed = 6 -> << <<NoLetter>>,
                           [i \in 1..half |-> half + 1 - i] \o <<half, n + 1>>,
                           <<NoLetter, NoLetter>>,
                           [i \in 1..n |-> i] >>
          [] seed = 7 -> <<<<1>>>>
          [] OTHER    -> <<[i \in 1..n |-> 1]>>

\* The letters of a line that label a member of a group of n.
LineCandidates(line, n) == SelectSeq(line, LAMBDA l : 1 <= l /\ l <= n)

RECURSIVE ParseRanking(_, _)
\* The loop over the lines of the response: valid is the letters of the
\* first line that holds at least len(group) // 2 of them, and at least
\* one.
ParseRanking(lines, n) ==
    IF lines = <<>> THEN <<>>
    ELSE LET candidates == LineCandidates(Head(lines), n)
         IN  IF Len(candidates) >= n \div 2 /\ candidates # <<>>
             THEN candidates
             ELSE ParseRanking(Tail(lines), n)

\* Variant of rank_group: a letter is taken as often as it is mentioned.
rank_group_keeps_repeats(group, seed) ==
    Then(JudgeResponse(group, seed), LAMBDA response_text :
    Then(ParseRanking(response_text, Len(group)), LAMBDA valid :
    Then([i \in 1..Len(valid) |-> group[valid[i]]], LAMBDA ordered0 :
    Then(Range(ordered0), LAMBDA seen :
    Then(SelectSeq(group, LAMBDA h : h \notin seen), LAMBDA unmentioned :
    Then(ordered0 \o Shuffle(unmentioned, seed), LAMBDA ordered :
        IF valid = <<>> THEN Shuffle(ordered, seed) ELSE ordered))))))

\* rank_group: the group ordered by the reply; unmentioned members are
\* shuffled and appended; with no valid letter the whole order is shuffled.
rank_group(group, seed) ==
    Then(JudgeResponse(group, seed), LAMBDA response_text :
    Then(ParseRanking(response_text, Len(group)), LAMBDA valid :
    Then(Dedupe(valid, {}), LAMBDA mentioned :
    Then([i \in 1..Len(mentioned) |-> group[mentioned[i]]], LAMBDA ordered0 :
    Then(Range(ordered0), LAMBDA seen :
    Then(SelectSeq(group, LAMBDA h : h \notin seen), LAMBDA unmentioned :
    Then(ordered0 \o Shuffle(unmentioned, seed), LAMBDA ordered :
        IF valid = <<>> THEN Shuffle(ordered, seed) ELSE ordered)))))))

\* The order in which the futures of a round complete.
CompletionOrder(g, seed) ==
    IF seed % 2 = 1 THEN [i \in 1..g |-> i] ELSE [i \in 1..g |-> g + 1 - i]

\* One elimination round: the winners in completion order, and the losers
\* as <<headline_id, pos>> with pos counted from 3.
EliminationRound(remaining, seed) ==
    LET num_groups == NumGroups(Len(remaining))
        order   == CompletionOrder(num_groups, seed)
        losers(o) == [j \in 1..(Len(o) - Min(ADVANCE_COUNT, Len(o))) |->
                         <<o[j + ADVANCE_COUNT], j + ADVANCE_COUNT - 1>>]
    IN  Then(Table(distribute_into_groups(remaining, num_groups)), LAMBDA groups :
        Then(Table([k \in 1..num_groups |-> rank_group(groups[order[k]], seed)]),
             LAMBDA ordered :
            [next_remaining   |-> Flatten([k \in 1..num_groups |-> Take(ordered[k], ADVANCE_COUNT)]),
             round_eliminated |-> Flatten([k \in 1..num_groups |-> losers(ordered[k])])]))

RECURSIVE EliminationRoundsAbove15(_, _, _)
\* Variant of the while loop: it runs while more than 15 remain.
EliminationRoundsAbove15(remaining, seed, rounds) ==
    IF Len(remaining) > GROUP_TARGET
    THEN LET r == EliminationRound(remaining, seed)
         IN  EliminationRoundsAbove15(r.next_remaining, seed, Append(rounds, r.round_eliminated))
    ELSE [remaining |-> remaining, elimination_rounds |-> rounds]

RECURSIVE EliminationRounds(_, _, _)
\* The while loop of run_tournament: [remaining, elimination_rounds].
EliminationRounds(remaining, seed, rounds) ==
    IF Len(remaining) > FINAL_ROUND_MAX
    THEN LET r == EliminationRound(remaining, seed)
         IN  EliminationRounds(r.next_remaining, seed, Append(rounds, r.round_eliminated))
    ELSE [remaining |-> remaining, elimination_rounds |-> rounds]

\* The tiers of one round: sorted by pos (stable), grouped by pos.
Tiers(round_eliminated) ==
    LET poss == SortedSeq({round_eliminated[i][2] : i \in 1..Len(round_eliminated)})
        ids(p) == LET sel == SelectSeq(round_eliminated, LAMBDA e : e[2] = p)
                  IN  [i \in 1..Len(sel) |-> sel[i][1]]
    IN  [k \in 1..Len(poss) |-> ids(poss[k])]

\* Variant of run_tournament: the rank counter is advanced once more after
\* the final round, leaving one rank without a headline.
run_tournament_skips_a_rank(candidates, seed) ==
    LET shuffled == Shuffle(candidates, seed)
        elim     == EliminationRounds(shuffled, seed, <<>>)
        final_ordered == rank_group(elim.remaining, seed)
        finals   == [i \in 1..Len(final_ordered) |-> <<final_ordered[i]>>]
        revd     == Reverse(elim.elimination_rounds)
    IN  finals \o <<<<>>>> \o Flatten([k \in 1..Len(revd) |-> Tiers(revd[k])])

\* Variant of run_tournament: the elimination rounds are consumed first
\* round first.
run_tournament_first_round_first(candidates, seed) ==
    LET shuffled == Shuffle(candidates, seed)
        elim     == EliminationRounds(shuffled, seed, <<>>)
        final_ordered == rank_group(elim.remaining, seed)
        finals   == [i \in 1..Len(final_ordered) |-> <<final_ordered[i]>>]
        rounds   == elim.elimination_rounds
    IN  finals \o Flatten([k \in 1..Len(rounds) |-> Tiers(rounds[k])])

\* run_tournament: headlines_by_rank as a sequence, the rank being the
\* index and the element the list of headline ids of that rank.
run_tournament(candidates, seed) ==
    LET shuffled == Shuffle(candidates, seed)
        elim     == EliminationRounds(shuffled, seed, <<>>)
        final_ordered == rank_group(elim.remaining, seed)
        finals   == [i \in 1..Len(final_ordered) |-> <<final_ordered[i]>>]
        revd     == Reverse(elim.elimination_rounds)
    IN  finals \o Flatten([k \in 1..Len(revd) |-> Tiers(revd[k])])

\* The rank keys in the order split_by_rank visits them: sorted(keys, key=int).
RankOrder(headlines_by_rank) == [i \in 1..Len(headlines_by_rank) |-> i]

\* split_by_rank: all_ranked as <<rank, headline_id>> in rank order, the
\* first survivor_count of them survive.
AllRanked(headlines_by_rank) ==
    LET keys == RankOrder(headlines_by_rank)
    IN  Flatten([k \in 1..Len(keys) |->
            [j \in 1..Len(headlines_by_rank[keys[k]]) |->
                <<keys[k], headlines_by_rank[keys[k]][j]>>]])

\* Variant of split_by_rank: the cut compares with <= where the code has <.
split_by_rank_one_more(headlines_by_rank, survivor_count) ==
    LET all_ranked == AllRanked(headlines_by_rank)
        rest == Drop(all_ranked, survivor_count + 1)
    IN  [survivors     |-> Take(all_ranked, survivor_count + 1),
         non_survivors |-> [i \in 1..Len(rest) |-> rest[i][2]]]

split_by_rank(headlines_by_rank, survivor_count) ==
    LET all_ranked == AllRanked(headlines_by_rank)
        rest == Drop(all_ranked, survivor_count)
    IN  [survivors     |-> Take(all_ranked, survivor_count),
         non_survivors |-> [i \in 1..Len(rest) |-> rest[i][2]]]


(***************************************************************************)
(* State.                                                                  *)
(***************************************************************************)
\* The tournament handler and the store it ranks.
VARIABLES
    headlines,   \* SubvertedHeadlines: HeadlineId -> item
    today,       \* the editorial date (America/New_York), as a day number
    hour,        \* the editorial hour
    run,         \* per invocation slot of the tournament handler: its locals
    arrivals,    \* bursts of new headlines so far (one story each)
    rng,         \* the seed of this execution's random draws and model replies
    runs         \* tournament invocations that ranked a pool so far

\* The reader's select_headlines.
VARIABLES
    sel          \* the arguments and the locals of one call

\* The Subvert worker and one day partition of SubvertedHeadlines.
VARIABLES
    partition,   \* the items of the partition
    worker,      \* per invocation slot of the subvert handler: its locals
    saves,       \* calls of save_headlines so far (the CreateTime clock)
    deliveries   \* stream batches delivered so far

\* The Story Ingestor and the Stories table.
VARIABLES
    stories,     \* the items of the Stories table
    fetcher,     \* the locals of the fetch handler
    upstream,    \* what newsdata.io answers, the same in every run
    sort_key     \* the sort key of the Stories table

\* The model gateway of a warm process.
VARIABLES
    gateway,     \* the locals of one _do_api_call, its requests and its sleeps
    globals,     \* _anthropic_client, _google_client, _few_shot_cache
    built,       \* per global, how often its constructor or store query ran
    getter,      \* per worker thread: the locals of its call of a getter
    stage1,      \* one call of stage_1_brainstorm: the response and the result
    loop         \* one call of run_tournament: the locals of its while loop

tvars == <<headlines, today, hour, run, arrivals, rng, runs>>

rvars == <<sel>>

svars == <<partition, worker, saves, deliveries>>

fvars == <<stories, fetcher, upstream, sort_key>>

lvars == <<gateway, globals, built, getter, stage1, loop>>

vars == <<tvars, rvars, svars, fvars, lvars>>

\* The item save_headlines puts: no Rank, TournamentBatch, Survived,
\* CrossDayRank or OriginalSubverted.
NewItem(ymd, story) ==
    [ymd |-> ymd, story |-> story, text |-> SubvertText, orig |-> Absent,
     rank |-> Absent, batch |-> Absent, survived |-> "absent", cross |-> Absent]

\* The locals of an invocation; after its return they keep what it computed.
\* prev is previous_survivors as (rank, id) pairs, as read at the entry.
IdleRun ==
    [pc |-> "idle", ret |-> "none", today |-> 0, batch_num |-> 0,
     pool |-> <<>>, by_rank |-> <<>>, survivors |-> <<>>, non_survivors |-> <<>>,
     cross |-> <<>>, to_polish |-> <<>>, i |-> 0, num_new |-> 0, prev |-> <<>>]

\* get_headlines_for_day: the ids of the day's items of store hs, in
\* sort-key order.
get_headlines_for_day(hs, day_key) ==
    SortedSeq({h \in DOMAIN hs : hs[h].ymd = day_key})

\* list.sort(key=rank): stable.  The element at index i goes behind the
\* elements of a smaller rank and the earlier elements of the same rank.
SortByRank(hs, ids) ==
    Then(ids, LAMBDA list :
    Then(Table([i \in 1..Len(list) |-> hs[list[i]].rank]), LAMBDA key :
    Then(Table([i \in 1..Len(list) |->
            Cardinality({j \in 1..Len(list) :
                            key[j] < key[i] \/ (key[j] = key[i] /\ j < i)}) + 1]),
         LAMBDA place :
        [k \in 1..Len(list) |-> list[CHOOSE i \in 1..Len(list) : place[i] = k]])))

\* get_top_n_for_day: the day's ranked items by Rank, the first n.
get_top_n_for_day(hs, day_key, n) ==
    Take(SortByRank(hs, SelectSeq(get_headlines_for_day(hs, day_key),
                                  LAMBDA h : hs[h].rank # Absent)), n)

\* is_final_run: the 4th batch or later, or 9pm or later.
is_final_run(batch_num, hr) == batch_num >= FINAL_BATCH \/ hr >= LATE_HOUR

\* The polish model's reply for a headline: nothing, the same text, or one
\* of two new texts.
PolishReply(hid, text, sd) ==
    CASE (hid + sd) % 4 = 0 -> Absent
      [] (hid + sd) % 4 = 1 -> text
      [] (hid + sd) % 4 = 2 -> text + 1
      [] OTHER              -> text + 2

\* update_survivors' update_item: SET Rank, TournamentBatch, Survived.
SetSurvivor(item, rank, batch_num) ==
    [item EXCEPT !.rank = rank, !.batch = batch_num, !.survived = "true"]

\* Variant of update_non_survivors' update_item: the REMOVE Rank is missing.
SetNonSurvivorKeepsRank(item, batch_num) ==
    [item EXCEPT !.batch = batch_num, !.survived = "false"]

\* update_non_survivors' update_item: SET TournamentBatch, Survived REMOVE Rank.
SetNonSurvivor(item, batch_num) ==
    [item EXCEPT !.rank = Absent, !.batch = batch_num, !.survived = "false"]

\* Variant of update_cross_day_ranks' update_item: Rank is set as well.
SetCrossDayRankAndRank(item, rank) == [item EXCEPT !.cross = rank, !.rank = rank]

\* update_cross_day_ranks' update_item: SET CrossDayRank.
SetCrossDayRank(item, rank) == [item EXCEPT !.cross = rank]

\* Variant of polish_top_headlines' update_item: SET Headline only.
SetPolishedHeadlineOnly(item, improved, previous) == [item EXCEPT !.text = improved]

\* polish_top_headlines' update_item: SET Headline, OriginalSubverted.
SetPolished(item, improved, previous) ==
    [item EXCEPT !.text = improved, !.orig = previous]

new_headlines(hs, all_headlines) ==
    SelectSeq(all_headlines, LAMBDA h : hs[h].batch = Absent)

\* Variant of previous_survivors: every headline a run has marked, the
\* eliminated ones included.
previous_survivors_or_eliminated(hs, all_headlines) ==
    SelectSeq(all_headlines, LAMBDA h : hs[h].survived # "absent")

previous_survivors(hs, all_headlines) ==
    SelectSeq(all_headlines, LAMBDA h : hs[h].survived = "true")

\* max(TournamentBatch or 0 over the day's items, default 0).
MaxBatch(hs, all_headlines) ==
    LET bs == {hs[all_headlines[i]].batch : i \in 1..Len(all_headlines)} \cup {0}
    IN  CHOOSE b \in bs : \A c \in bs : c <= b

\* Variant of batch_num: the + 1 is missing.
SameBatch(hs, all_headlines) == MaxBatch(hs, all_headlines)

\* batch_num: one more than the day's highest TournamentBatch.
NextBatch(hs, all_headlines) == MaxBatch(hs, all_headlines) + 1

\* Variant of the early return: it tests the candidates, not the new
\* headlines.
SkipsRunWithoutCandidates(hs, day) ==
    /\ Len(new_headlines(hs, get_headlines_for_day(hs, day))) = 0
    /\ Len(previous_survivors(hs, get_headlines_for_day(hs, day))) = 0

\* A run that finds no new headline returns before any write.
SkipsRun(hs, day) ==
    Len(new_headlines(hs, get_headlines_for_day(hs, day))) = 0

\* tournament() from its entry to its first write: the day's query, the
\* one-headline path, the batch number and the ranking of new + survivors.
StartOf(hs, day, sd) ==
    LET all_headlines == get_headlines_for_day(hs, day)
        new  == new_headlines(hs, all_headlines)
        prev == previous_survivors(hs, all_headlines)
    IN  IF Len(new) < 2 /\ prev = <<>>
        THEN [IdleRun EXCEPT !.pc = "single", !.today = day, !.batch_num = 1,
                 !.pool = new, !.by_rank = <<<<new[1]>>>>,
                 !.survivors = <<<<1, new[1]>>>>, !.i = 1, !.num_new = Len(new)]
        ELSE Then(new \o prev, LAMBDA candidates :
             Then(run_tournament(candidates, sd), LAMBDA by_rank :
             Then(split_by_rank(by_rank, SURVIVOR_COUNT), LAMBDA split :
                 [IdleRun EXCEPT !.pc = "survivors", !.today = day,
                     !.batch_num = NextBatch(hs, all_headlines),
                     !.pool = candidates, !.by_rank = by_rank,
                     !.survivors = split.survivors,
                     !.non_survivors = split.non_survivors, !.i = 1,
                     !.num_new = Len(new),
                     !.prev = [i \in 1..Len(prev) |-> <<hs[prev[i]].rank, prev[i]>>]])))

\* The pool of run_cross_day_tournament: today's survivors of this run that
\* the day's query returns, then the top 16 of the two days before.
CrossDayPool(hs, day, today_survivors) ==
    LET all_today  == get_headlines_for_day(hs, day)
        first64    == Take(today_survivors, CROSS_TODAY_TOP)
        today_ids  == [i \in 1..Len(first64) |-> first64[i][2]]
        today_pool == SelectSeq(today_ids, LAMBDA h : h \in Range(all_today))
    IN  today_pool \o get_top_n_for_day(hs, day - 1, CROSS_PREV_TOP)
                   \o get_top_n_for_day(hs, day - 2, CROSS_PREV_TOP)

\* Variant of the skip of polish_top_headlines: nothing is skipped.
NeverPolished(item) == FALSE

\* Whether polish_top_headlines skips a headline it has read.
AlreadyPolished(item) == item.orig # Absent

\* The to_polish list of polish_top_headlines: the first 16 survivors that
\* the day's query returns and that are not polished, each with the text
\* read now.
ToPolish(hs, day, survivors) ==
    LET all_headlines == get_headlines_for_day(hs, day)
        top  == Take(survivors, POLISH_TOP)
        ids  == [i \in 1..Len(top) |-> top[i][2]]
        kept  == SelectSeq(ids, LAMBDA h : h \in Range(all_headlines)
                                          /\ ~AlreadyPolished(hs[h]))
    IN  [i \in 1..Len(kept) |-> [id |-> kept[i], text |-> hs[kept[i]].text]]

\* After the cross-day tournament: is_final_run and, on a final run, the
\* read of polish_top_headlines; else the return.
AfterCrossDay(hs, rr, hr) ==
    IF is_final_run(rr.batch_num, hr) /\ ToPolish(hs, rr.today, rr.survivors) # <<>>
    THEN [rr EXCEPT !.pc = "polish", !.i = 1,
             !.to_polish = ToPolish(hs, rr.today, rr.survivors)]
    ELSE [rr EXCEPT !.pc = "idle", !.i = 1, !.ret = "ranked"]

\* One store access of a running invocation with locals rr on store hs, at
\* hour hr: the store and the locals after it.
StepOf(hs, rr, hr, sd) ==
    CASE rr.pc = "single" ->
            LET s == rr.survivors[1]
            IN  [hs |-> [hs EXCEPT ![s[2]] = SetSurvivor(@, s[1], rr.batch_num)],
                 rr |-> [rr EXCEPT !.pc = "idle", !.ret = "only"]]
      [] rr.pc = "survivors" ->
            LET s == rr.survivors[rr.i]
            IN  [hs |-> [hs EXCEPT ![s[2]] = SetSurvivor(@, s[1], rr.batch_num)],
                 rr |-> IF rr.i < Len(rr.survivors)
                        THEN [rr EXCEPT !.i = @ + 1]
                        ELSE [rr EXCEPT !.i = 1,
                                 !.pc = IF rr.non_survivors = <<>> THEN "cross_day"
                                        ELSE "non_survivors"]]
      [] rr.pc = "non_survivors" ->
            LET h == rr.non_survivors[rr.i]
            IN  [hs |-> [hs EXCEPT ![h] = SetNonSurvivor(@, rr.batch_num)],
                 rr |-> IF rr.i < Len(rr.non_survivors)
                        THEN [rr EXCEPT !.i = @ + 1]
                        ELSE [rr EXCEPT !.i = 1, !.pc = "cross_day"]]
      [] rr.pc = "cross_day" ->
            LET pool == CrossDayPool(hs, rr.today, rr.survivors)
            IN  [hs |-> hs,
                 rr |-> IF Len(pool) < 2
                        THEN AfterCrossDay(hs, rr, hr)
                        ELSE [rr EXCEPT !.pc = "cross_write", !.i = 1,
                                 !.cross = AllRanked(run_tournament(pool, sd))]]
      [] rr.pc = "cross_write" ->
            LET c  == rr.cross[rr.i]
                h2 == [hs EXCEPT ![c[2]] = SetCrossDayRank(@, c[1])]
            IN  [hs |-> h2,
                 rr |-> IF rr.i < Len(rr.cross)
                        THEN [rr EXCEPT !.i = @ + 1]
                        ELSE AfterCrossDay(h2, rr, hr)]
      [] rr.pc = "polish" ->
            LET h == rr.to_polish[rr.i]
                improved == PolishReply(h.id, h.text, sd + rr.batch_num)
            IN  [hs |-> IF improved # Absent /\ improved # h.text
                        THEN [hs EXCEPT ![h.id] = SetPolished(@, improved, h.text)]
                        ELSE hs,
                 rr |-> IF rr.i < Len(rr.to_polish)
                        THEN [rr EXCEPT !.i = @ + 1]
                        ELSE [rr EXCEPT !.pc = "idle", !.i = 1, !.ret = "ranked"]]

\* The loop of update_survivors run to its end: one SetSurvivor per
\* (rank, id) pair.
WriteSurvivors(hs, survivors, batch_num) ==
    Table([h \in DOMAIN hs |->
        IF \E i \in 1..Len(survivors) : survivors[i][2] = h
        THEN SetSurvivor(hs[h], survivors[CHOOSE i \in 1..Len(survivors) :
                                              survivors[i][2] = h][1], batch_num)
        ELSE hs[h]])

\* The loop of update_non_survivors run to its end.
WriteNonSurvivors(hs, non_survivors, batch_num) ==
    Table([h \in DOMAIN hs |->
        IF h \in Range(non_survivors) THEN SetNonSurvivor(hs[h], batch_num) ELSE hs[h]])

\* The loop of update_cross_day_ranks run to its end.
WriteCrossDayRanks(hs, cross) ==
    Table([h \in DOMAIN hs |->
        IF \E i \in 1..Len(cross) : cross[i][2] = h
        THEN SetCrossDayRank(hs[h], cross[CHOOSE i \in 1..Len(cross) : cross[i][2] = h][1])
        ELSE hs[h]])

\* The loop of polish_top_headlines run to its end.
WritePolished(hs, to_polish, sd) ==
    Table([h \in DOMAIN hs |->
        IF \E i \in 1..Len(to_polish) : to_polish[i].id = h
        THEN LET p == to_polish[CHOOSE i \in 1..Len(to_polish) : to_polish[i].id = h]
                 improved == PolishReply(p.id, p.text, sd)
             IN  IF improved # Absent /\ improved # p.text
                 THEN SetPolished(hs[h], improved, p.text)
                 ELSE hs[h]
        ELSE hs[h]])

\* The ranking of run_cross_day_tournament's pool, as (rank, id) pairs;
\* nothing when the pool has fewer than 2 headlines.
CrossDayRanks(hs, rr, sd) ==
    Then(CrossDayPool(hs, rr.today, rr.survivors), LAMBDA pool :
        IF Len(pool) < 2 THEN <<>> ELSE AllRanked(run_tournament(pool, sd)))

\* An invocation that nothing interrupts, from its first write to its
\* return: the store accesses of StepOf one after another.
RunToEnd(hs, rr, hr, sd) ==
    IF rr.pc = "single" THEN StepOf(hs, rr, hr, sd)
    ELSE
    Then(WriteSurvivors(hs, rr.survivors, rr.batch_num), LAMBDA h1 :
    Then(WriteNonSurvivors(h1, rr.non_survivors, rr.batch_num), LAMBDA h2 :
    Then(CrossDayRanks(h2, rr, sd), LAMBDA cross :
    Then(WriteCrossDayRanks(h2, cross), LAMBDA h3 :
    Then(AfterCrossDay(h3, [rr EXCEPT !.cross = cross], hr), LAMBDA r3 :
        [hs |-> WritePolished(h3, r3.to_polish, sd + rr.batch_num),
         rr |-> [r3 EXCEPT !.pc = "idle", !.i = 1, !.ret = "ranked"]])))))

TInit ==
    /\ headlines = <<>>
    /\ today = 1
    /\ hour = 20
    /\ run = [r \in Slots |-> IdleRun]
    /\ arrivals = 0
    /\ rng \in Seeds
    /\ runs = 0

AllIdle == \A r \in Slots : run[r].pc = "idle"

(***************************************************************************)
(* Environment: the Subvert worker adds headlines; the clock advances.     *)
(***************************************************************************)
\* One burst of new headlines for today, once the earlier ones have been
\* through a run.
Arrive(n) ==
    /\ AllIdle
    /\ \A h \in DOMAIN headlines : headlines[h].batch # Absent
    /\ Cardinality(DOMAIN headlines) + n <= MaxHeadlines
    /\ LET n0 == Cardinality(DOMAIN headlines)
       IN  headlines' = headlines @@ [i \in (n0 + 1)..(n0 + n) |-> NewItem(today, arrivals + 1)]
    /\ arrivals' = arrivals + 1
    /\ UNCHANGED <<lvars, rvars, svars, fvars, today, hour, run, rng, runs>>

\* One new headline for today while an invocation is between the read and
\* the last write of polish_top_headlines: the Subvert worker does not wait
\* for the tournament, and its stream event invokes the handler again.
ArriveDuringPolish ==
    /\ run[1].pc = "polish"
    /\ run[2].pc = "idle" /\ run[2].ret = "none"
    /\ \A h \in DOMAIN headlines : headlines[h].batch # Absent
    /\ Cardinality(DOMAIN headlines) + 1 <= MaxHeadlines
    /\ LET n0 == Cardinality(DOMAIN headlines)
       IN  headlines' = headlines @@ [i \in {n0 + 1} |-> NewItem(today, arrivals + 1)]
    /\ arrivals' = arrivals + 1
    /\ UNCHANGED <<lvars, rvars, svars, fvars, today, hour, run, rng, runs>>

Tick ==
    /\ AllIdle
    /\ hour < LATE_HOUR
    /\ hour' = LATE_HOUR
    /\ UNCHANGED <<lvars, rvars, svars, fvars, headlines, today, run, arrivals, rng, runs>>

NextDay ==
    /\ AllIdle
    /\ hour = LATE_HOUR
    /\ today + 1 \in Days
    /\ today' = today + 1
    /\ hour' = 20
    /\ UNCHANGED <<lvars, rvars, svars, fvars, headlines, run, arrivals, rng, runs>>

Environment ==
    \/ \E n \in ArrivalSizes : Arrive(n)
    \/ Tick
    \/ NextDay

\* save_headlines for a story whose YearMonthDay (the date of its pubDate)
\* is `day`, whatever the editorial date is now: one new headline in that
\* partition.
ArriveIn(day) ==
    /\ AllIdle
    /\ arrivals < MaxDatedArrivals
    /\ LET n0 == Cardinality(DOMAIN headlines)
       IN  headlines' = headlines @@ [i \in {n0 + 1} |-> NewItem(day, arrivals + 1)]
    /\ arrivals' = arrivals + 1
    /\ UNCHANGED <<lvars, rvars, svars, fvars, today, hour, run, rng, runs>>

(***************************************************************************)
(* The tournament handler.                                                 *)
(***************************************************************************)
\* An invocation that finds no new headline for today.
SkipRun(r) ==
    /\ run[r].pc = "idle"
    /\ SkipsRun(headlines, today)
    /\ run' = [run EXCEPT ![r].ret = "skipped"]
    /\ UNCHANGED <<lvars, rvars, svars, fvars, headlines, today, hour, arrivals, rng, runs>>

\* A whole invocation that ranks, with no other invocation under way.
Tournament ==
    /\ AllIdle
    /\ ~SkipsRun(headlines, today)
    /\ runs < MaxRuns
    /\ \E rr \in {StartOf(headlines, today, rng)} :
         \E end \in {RunToEnd(headlines, rr, hour, rng)} :
            /\ headlines' = end.hs
            /\ run' = [run EXCEPT ![1] = end.rr]
    /\ runs' = runs + 1
    /\ UNCHANGED <<lvars, rvars, svars, fvars, today, hour, arrivals, rng>>

\* Runs of a day one at a time.
TNext == Environment \/ SkipRun(1) \/ Tournament

\* Runs one at a time on a store that receives headlines of any day.
TNextDated ==
    \/ \E day \in Days : ArriveIn(day)
    \/ Tick
    \/ NextDay
    \/ SkipRun(1)
    \/ Tournament

(***************************************************************************)
(* Overlapping invocations, one action per store access.                   *)
(***************************************************************************)
\* The entry of an invocation that ranks, up to its first write.
StartRun(r) ==
    /\ run[r].pc = "idle"
    /\ ~SkipsRun(headlines, today)
    /\ runs < MaxRuns
    /\ run' = [run EXCEPT ![r] = StartOf(headlines, today, rng)]
    /\ runs' = runs + 1
    /\ UNCHANGED <<lvars, rvars, svars, fvars, headlines, today, hour, arrivals, rng>>

\* The next store access of invocation r, which is at program point pc.
StepAt(r, pc) ==
    /\ run[r].pc = pc
    /\ \E n \in {StepOf(headlines, run[r], hour, rng)} :
            /\ headlines' = n.hs
            /\ run' = [run EXCEPT ![r] = n.rr]
    /\ UNCHANGED <<lvars, rvars, svars, fvars, today, hour, arrivals, rng, runs>>

UpdateSingle(r) == StepAt(r, "single")

UpdateSurvivor(r) == StepAt(r, "survivors")

UpdateNonSurvivor(r) == StepAt(r, "non_survivors")

CrossDayRead(r) == StepAt(r, "cross_day")

UpdateCrossDayRank(r) == StepAt(r, "cross_write")

PolishOne(r) == StepAt(r, "polish")

RunStep(r) ==
    \/ UpdateSingle(r)
    \/ UpdateSurvivor(r)
    \/ UpdateNonSurvivor(r)
    \/ CrossDayRead(r)
    \/ UpdateCrossDayRank(r)
    \/ PolishOne(r)

(***************************************************************************)
(* Failures: tournament() catches nothing (try ... finally), so an error   *)
(* raised anywhere in it ends the invocation there.                        *)
(***************************************************************************)
\* _do_api_call raises after its last retry: rank_group, the future's
\* result() and run_tournament pass the error on, before the first write.
JudgeFails(r) ==
    /\ run[r].pc = "idle"
    /\ ~SkipsRun(headlines, today)
    /\ runs < MaxRuns
    /\ \E rr \in {StartOf(headlines, today, rng)} :
          /\ rr.pc # "single"
          /\ run' = [run EXCEPT ![r] =
                [IdleRun EXCEPT !.ret = "judge_failed", !.today = rr.today,
                                !.batch_num = rr.batch_num, !.pool = rr.pool,
                                !.num_new = rr.num_new, !.prev = rr.prev]]
    /\ runs' = runs + 1
    /\ UNCHANGED <<lvars, rvars, svars, fvars, headlines, today, hour, arrivals, rng>>

\* An error of a store call or of a later model call, or the Lambda
\* timeout, between two store accesses of the invocation.
Crash(r) ==
    /\ run[r].pc \notin {"idle", "single"}
    /\ run' = [run EXCEPT ![r].pc = "idle", ![r].ret = "crashed"]
    /\ UNCHANGED <<lvars, rvars, svars, fvars, headlines, today, hour, arrivals, rng, runs>>

\* The survivors a day has after a first run over s headlines.
AfterFirstRun(s, sd) ==
    LET fresh == [h \in 1..s |-> NewItem(1, h)]
    IN  IF s = 0 THEN fresh
        ELSE RunToEnd(fresh, StartOf(fresh, 1, sd), 20, sd).hs

\* The sizes of the cohort the day has before the run.
CohortSizes == {0, 15}

\* A day with the survivors of a first run, if any, and n new headlines.
PInit ==
    \E s \in CohortSizes, n \in 1..MaxNew, sd \in Seeds :
        /\ headlines = AfterFirstRun(s, sd) @@
                           [h \in (s + 1)..(s + n) |-> NewItem(1, h)]
        /\ today = 1
        /\ hour = 20
        /\ run = [r \in Slots |-> IdleRun]
        /\ arrivals = s + n
        /\ rng = sd
        /\ runs = IF s = 0 THEN 0 ELSE 1

\* The seeds of the judge's responses, each with its random draws.
JudgeSeeds == 1..8

\* The sizes of the pools the judge is given: the single headline, the
\* final round alone, one elimination round of 1, 2 and 7 groups, two
\* elimination rounds of equal and of unequal groups.
JudgePools == {1, 2, 20, 21, 35, 98, 100}

\* A day of n new headlines and a judge.
JInit ==
    \E n \in JudgePools, sd \in JudgeSeeds :
        /\ headlines = [h \in 1..n |-> NewItem(1, h)]
        /\ today = 1
        /\ hour = 20
        /\ run = [r \in Slots |-> IdleRun]
        /\ arrivals = n
        /\ rng = sd
        /\ runs = 0

\* One invocation on that day, access by access.
JNext ==
    \/ (run[1].ret = "none" /\ StartRun(1))
    \/ RunStep(1)

\* One invocation on that day, access by access, which may fail.
PNext ==
    \/ (run[1].ret = "none" /\ StartRun(1))
    \/ RunStep(1)
    \/ (run[1].ret = "none" /\ JudgeFails(1))
    \/ Crash(1)

\* The first ranking invocation, on the first day, runs access by access;
\* while it is between two accesses a second invocation may start, once,
\* and runs to its return before the first resumes.  Until an overlap has
\* happened, later invocations run uninterrupted.
TNextConc ==
    \/ Environment
    \/ SkipRun(1)
    \/ (runs > 0 /\ run[2].ret = "none" /\ Tournament)
    \/ (runs = 0 /\ today = 1 /\ StartRun(1))
    \/ (run[2].pc = "idle" /\ RunStep(1))
    \/ (run[1].pc # "idle" /\ run[2].ret = "none" /\ StartRun(2))
    \/ RunStep(2)

(***************************************************************************)
(* Properties of the tournament.                                           *)
(***************************************************************************)
\* The headlines of a day partition.
DayOf(day) == {h \in DOMAIN headlines : headlines[h].ymd = day}

\* The survivor cohort of a day: its headlines with Survived = true.
Cohort(day) == {h \in DayOf(day) : headlines[h].survived = "true"}

\* The last invocation of slot 1 returned after ranking.
Completed == run[1].pc = "idle" /\ run[1].ret \in {"ranked", "only"}

\* The ids of a list of to_polish entries.
PolishIds(to_polish) == {to_polish[i].id : i \in 1..Len(to_polish)}

\* C1: in every reachable state, overlapping invocations and their daily,
\* cross-day and polish writes included, a headline with Survived = true
\* has a Rank >= 1 and a headline with Survived = false has no Rank.
C1_SurvivedIffRanked ==
    \A h \in DOMAIN headlines :
        /\ headlines[h].survived = "true"  => headlines[h].rank >= 1
        /\ headlines[h].survived = "false" => headlines[h].rank = Absent

\* C1's case: a second invocation is polishing while the first is between
\* its survivor writes and its non-survivor writes, and the store holds
\* survivors with a cross-day rank and non-survivors.
C1_Witness ==
    /\ run[1].pc = "non_survivors"
    /\ run[2].pc = "polish"
    /\ \E h \in DOMAIN headlines : headlines[h].survived = "false"
    /\ \E h \in DOMAIN headlines :
          headlines[h].survived = "true" /\ headlines[h].cross # Absent

\* The number of pool members that by_rank puts before headline h: those of
\* a smaller rank, and those listed before it under its own rank.
PlaceOf(by_rank, h) ==
    LET r == CHOOSE k \in 1..Len(by_rank) : h \in Range(by_rank[k])
        j == CHOOSE k \in 1..Len(by_rank[r]) : by_rank[r][k] = h
        smaller == {k \in 1..Len(by_rank) : k < r}
    IN  Cardinality(UNION {Range(by_rank[k]) : k \in smaller}) + j

\* C2: when runs of a day never overlap, a run that ranks the pool P = new
\* headlines + previous survivors leaves Survived = true on exactly the
\* first min(64, |P|) headlines of P in rank order, never on more than 64;
\* every other member of P, previous survivors included, has Survived =
\* false and no Rank; with |P| <= 64 nothing is written Survived = false.
C2_CohortIsTop64 ==
    [][runs' = runs + 1 =>
        LET P  == {h \in DayOf(today) : \/ headlines[h].batch = Absent
                                        \/ headlines[h].survived = "true"}
            by_rank == run'[1].by_rank
            S  == {h \in DayOf(today) : headlines'[h].survived = "true"}
            n  == IF Cardinality(P) < SURVIVOR_COUNT THEN Cardinality(P)
                  ELSE SURVIVOR_COUNT
        IN  /\ Range(run'[1].pool) = P
            /\ UNION {Range(by_rank[k]) : k \in 1..Len(by_rank)} = P
            /\ S = {h \in P : PlaceOf(by_rank, h) <= n}
            /\ Cardinality(S) = n
            /\ Cardinality(S) <= SURVIVOR_COUNT
            /\ \A h \in P \ S : /\ headlines'[h].survived = "false"
                                /\ headlines'[h].rank = Absent
            /\ Cardinality(P) <= SURVIVOR_COUNT =>
                  \A h \in DayOf(today) :
                      headlines'[h].survived = "false" => headlines[h].survived = "false"
    ]_tvars

\* C2's case: a completed run whose pool was larger than 64 and which
\* demoted a survivor of an earlier run.
C2_Witness ==
    /\ Completed
    /\ Len(run[1].pool) > SURVIVOR_COUNT
    /\ \E i \in 1..Len(run[1].pool) :
          /\ i > run[1].num_new
          /\ run[1].pool[i] \in Range(run[1].non_survivors)
          /\ headlines[run[1].pool[i]].survived = "false"

\* The Rank values held by the cohort of the last completed run.
CohortRanks == {headlines[h].rank : h \in Cohort(run[1].today)}

C4_BatchIncreases ==
    [][/\ \A h \in DOMAIN headlines : headlines'[h].batch >= headlines[h].batch
       /\ runs' = runs + 1 =>
             \A h \in Range(run'[1].pool) : \A g \in DayOf(today) :
                 headlines'[h].batch > headlines[g].batch
    ]_tvars

\* C4's case: a completed third run of a day that ranked again survivors
\* of the second.
C4_Witness ==
    /\ Completed
    /\ run[1].batch_num = 3
    /\ Len(run[1].pool) > run[1].num_new
    /\ \A h \in Range(run[1].pool) : headlines[h].batch = 3

\* C6: once a headline has OriginalSubverted, no later final run of serial
\* runs polishes it again: it is not in the run's to_polish list and its
\* Headline and OriginalSubverted never change.
C6_PolishedOnce ==
    [][\A h \in DOMAIN headlines :
          headlines[h].orig # Absent =>
              /\ headlines'[h].text = headlines[h].text
              /\ headlines'[h].orig = headlines[h].orig
              /\ runs' = runs + 1 => h \notin PolishIds(run'[1].to_polish)
    ]_tvars

\* C6's case: a final run has polished other headlines while one of its
\* first 16 survivors, polished by an earlier run, was left out.
C6_Witness ==
    /\ Completed
    /\ run[1].to_polish # <<>>
    /\ \E i \in 1..Len(run[1].survivors) :
          /\ i <= POLISH_TOP
          /\ headlines[run[1].survivors[i][2]].orig # Absent
          /\ run[1].survivors[i][2] \notin PolishIds(run[1].to_polish)

\* C10: an invocation that finds no headline of today without a
\* TournamentBatch writes nothing to the store, whatever the hour and
\* however many batches the day has had.
C10_NoNewNoWrite ==
    [][(/\ \A h \in DayOf(today) : headlines[h].batch # Absent
        /\ run' # run)
          => /\ headlines' = headlines
             /\ run'[1].ret = "skipped"
    ]_tvars

\* C10's case: an invocation has skipped at 9pm or later on a day that has
\* had 4 batches.
C10_Witness ==
    /\ run[1].ret = "skipped"
    /\ hour >= LATE_HOUR
    /\ \A h \in DayOf(today) : headlines[h].batch # Absent
    /\ \E h \in DayOf(today) : headlines[h].batch >= FINAL_BATCH

\* C11: when runs never overlap, a headline with Survived = false is in no
\* later run's candidate pool, and its Rank (absent), Survived and
\* TournamentBatch never change again.
C11_EliminatedStaysOut ==
    [][\A h \in DOMAIN headlines :
          headlines[h].survived = "false" =>
              /\ headlines'[h].rank = Absent
              /\ headlines'[h].survived = "false"
              /\ headlines'[h].batch = headlines[h].batch
              /\ runs' = runs + 1 => h \notin Range(run'[1].pool)
    ]_tvars

\* C11's case: a run of the day has completed after the run that
\* eliminated a headline of the day.
C11_Witness ==
    /\ Completed
    /\ \E h \in DayOf(run[1].today) :
          /\ headlines[h].survived = "false"
          /\ headlines[h].batch < run[1].batch_num

\* C12: with the stream trigger invoking the handler again and again, runs
\* one at a time and no failure, every headline the Subvert worker wrote
\* eventually has a TournamentBatch, whatever day partition it is in.
\* No TournamentBatch is ever removed and the arrivals are finitely many,
\* so the claim says that from some moment on every stored headline has a
\* TournamentBatch.
C12_EventuallyRanked ==
    <>[](\A h \in DOMAIN headlines : headlines[h].batch # Absent)

\* The elimination rounds of the last invocation's daily ranking: what the
\* while loop of run_tournament leaves for its pool.
RoundsOf(rr) == EliminationRounds(Shuffle(rr.pool, rng), rng, <<>>)

\* The groups of the first round of the last invocation's daily ranking.
FirstGroups(rr) ==
    distribute_into_groups(Shuffle(rr.pool, rng), NumGroups(Len(rr.pool)))

\* A completed run over 20 new headlines and 15 survivors.
PoolOf35 ==
    /\ Completed
    /\ Len(run[1].pool) = 35
    /\ run[1].num_new = 20

\* C13 as stated: a run over 20 new headlines + 15 survivors plays one
\* elimination round of 3 groups of about 12, and 9 headlines advance to
\* a final round of 9.
C13_ThreeGroupsNineAdvance ==
    PoolOf35 =>
        /\ Len(RoundsOf(run[1]).elimination_rounds) = 1
        /\ Len(FirstGroups(run[1])) = 3
        /\ Len(RoundsOf(run[1]).remaining) = 9
        /\ \A k \in 1..9 : Len(run[1].by_rank[k]) = 1

\* C13: a run over 20 new headlines + 15 survivors plays one elimination
\* round of round(35 / 15) = 2 groups, of 18 and 17; 6 headlines advance
\* to a final round of 6 and hold the ranks 1..6 alone, and the 29
\* eliminated share the ranks 7..21 by their place in their group.
C13_TwoGroupsSixAdvance ==
    PoolOf35 =>
        /\ Len(RoundsOf(run[1]).elimination_rounds) = 1
        /\ Len(FirstGroups(run[1])) = 2
        /\ Len(FirstGroups(run[1])[1]) = 18
        /\ Len(FirstGroups(run[1])[2]) = 17
        /\ Len(RoundsOf(run[1]).remaining) = 6
        /\ Len(run[1].by_rank) = 21
        /\ \A k \in 1..6 : /\ Len(run[1].by_rank[k]) = 1
                            /\ run[1].by_rank[k][1] \in Range(RoundsOf(run[1]).remaining)
        /\ \A k \in 7..20 : Len(run[1].by_rank[k]) = 2
        /\ Len(run[1].by_rank[21]) = 1

\* C13's case: a run over 20 new headlines and 15 survivors has completed
\* and written its 35 ranks.
C13_Witness ==
    /\ PoolOf35
    /\ \A h \in Range(run[1].pool) : headlines[h].batch = 2
    /\ Cardinality(Cohort(1)) = 35

\* C14: a run that returns without failure and whose pool has N <= 20
\* headlines plays no elimination round; the N headlines get the N ranks
\* 1..N, one each, and every one of them is written Survived = true.
C14_SmallPoolRankedDirectly ==
    (Completed /\ Len(run[1].pool) <= FINAL_ROUND_MAX) =>
        LET N == Len(run[1].pool)
            P == Range(run[1].pool)
        IN  /\ N >= 1
            /\ Cardinality(P) = N
            /\ RoundsOf(run[1]).elimination_rounds = <<>>
            /\ Len(run[1].by_rank) = N
            /\ \A k \in 1..N : /\ Len(run[1].by_rank[k]) = 1
                                /\ run[1].by_rank[k][1] \in P
                                /\ headlines[run[1].by_rank[k][1]].rank = k
            /\ run[1].non_survivors = <<>>
            /\ {headlines[h].rank : h \in P} = 1..N
            /\ \A h \in P : headlines[h].survived = "true"

\* C14's case: a run over a pool of exactly 20 headlines, 5 new and 15
\* survivors, has completed.
C14_Witness ==
    /\ Completed
    /\ Len(run[1].pool) = FINAL_ROUND_MAX
    /\ run[1].num_new = 5
    /\ \A h \in Range(run[1].pool) : headlines[h].batch = run[1].batch_num

\* The ids of a list of (rank, id) pairs.
IdsOf(pairs) == {pairs[i][2] : i \in 1..Len(pairs)}

\* C15: every run that finds a new headline ranks, after the daily
\* ranking, the pool of today's survivors of this run, the 16 best of
\* yesterday and the 16 best of the day before, and writes CrossDayRank on
\* every headline of that pool (stated for pools of 2 or more, the
\* smallest a ranking takes).
C15_CrossDayEveryRun ==
    [][runs' = runs + 1 =>
          LET pool == CrossDayPool(headlines', today, run'[1].survivors)
          IN  Len(pool) >= 2 =>
                 /\ IdsOf(run'[1].cross) = Range(pool)
                 /\ \A h \in Range(pool) : headlines'[h].cross # Absent
    ]_tvars

\* C36: the steps of run_cross_day_tournament and update_cross_day_ranks
\* add no item and leave every attribute other than CrossDayRank of every
\* headline as it was.
C36_CrossDayOnlySetsCrossDayRank ==
    [][\A r \in Slots :
          (run[r].pc \in {"cross_day", "cross_write"} /\ run'[r] # run[r]) =>
              /\ DOMAIN headlines' = DOMAIN headlines
              /\ \A h \in DOMAIN headlines :
                    [headlines'[h] EXCEPT !.cross = headlines[h].cross] = headlines[h]
    ]_tvars

\* C36 witness: a run has written the CrossDayRank of headlines of three
\* days, among them a headline that was polished and one of today.
C36_Witness ==
    \E r \in Slots :
        /\ run[r].ret = "ranked"
        /\ {headlines[h].ymd : h \in IdsOf(run[r].cross)} = {today, today - 1, today - 2}
        /\ \A i \in 1..Len(run[r].cross) :
              headlines[run[r].cross[i][2]].cross = run[r].cross[i][1]
        /\ \E h \in IdsOf(run[r].cross) : headlines[h].orig # Absent

\* C38: after every completed run, the headlines of the three-day window
\* that carry a CrossDayRank are the ones this run's cross-day tournament
\* ranked, and at most one of them has CrossDayRank 1.
C38_CrossDayRanksAreOfLatestRun ==
    [][runs' = runs + 1 =>
          LET window == {h \in DOMAIN headlines' :
                            headlines'[h].ymd \in (today - 2)..today}
          IN  /\ {h \in window : headlines'[h].cross # Absent} = IdsOf(run'[1].cross)
              /\ Cardinality({h \in window : headlines'[h].cross = 1}) <= 1
    ]_tvars

\* C39: in every state, also of runs that overlap, a headline without
\* OriginalSubverted has the Headline the Subvert worker wrote, and one with
\* OriginalSubverted has that text as OriginalSubverted and another text as
\* Headline; no step changes one of the two attributes and leaves the
\* headline without the other: OriginalSubverted changes only with
\* Headline, and Headline changes only on a headline that then has
\* OriginalSubverted.
C39_OriginalSubvertedIsTheOriginal ==
    [][\A h \in DOMAIN headlines' :
          /\ headlines'[h].orig = Absent => headlines'[h].text = SubvertText
          /\ headlines'[h].orig # Absent =>
                /\ headlines'[h].orig = SubvertText
                /\ headlines'[h].text # headlines'[h].orig
          /\ h \in DOMAIN headlines =>
                /\ headlines'[h].orig # headlines[h].orig =>
                      headlines'[h].text # headlines[h].text
                /\ headlines'[h].text # headlines[h].text =>
                      headlines'[h].orig # Absent
    ]_tvars

\* C39 witness: two final runs of a day that overlapped have both returned,
\* both had read one headline as not polished, the polish model gave them
\* different new texts for it, and both have written it.
C39_Witness ==
    \E h \in DOMAIN headlines :
        /\ \A r \in Slots :
              /\ run[r].pc = "idle"
              /\ run[r].ret = "ranked"
              /\ h \in PolishIds(run[r].to_polish)
              /\ PolishReply(h, SubvertText, rng + run[r].batch_num)
                    \notin {Absent, SubvertText}
        /\ PolishReply(h, SubvertText, rng + run[1].batch_num)
              # PolishReply(h, SubvertText, rng + run[2].batch_num)
        /\ headlines[h].orig = SubvertText

\* C40: in every run the cut of split_by_rank respects the rank tiers: the
\* headlines that run_tournament put under one rank are all survivors or
\* all non-survivors, and every survivor's rank is strictly smaller than
\* every non-survivor's rank.
C40_CutRespectsTiers ==
    \A r \in Slots :
        LET by_rank   == run[r].by_rank
            survivors == {run[r].survivors[i][2] : i \in 1..Len(run[r].survivors)}
            non_survivors == Range(run[r].non_survivors)
            RankOf(h) == CHOOSE k \in 1..Len(by_rank) : h \in Range(by_rank[k])
        IN  /\ \A k \in 1..Len(by_rank) :
                  \/ Range(by_rank[k]) \subseteq survivors
                  \/ Range(by_rank[k]) \subseteq non_survivors
            /\ \A s \in survivors, n \in non_survivors : RankOf(s) < RankOf(n)

\* C16: when the judge call of a group has failed after its last retry,
\* the run still completes and every headline of its pool has been
\* written by it.
C16_JudgeFailureStillRanks ==
    run[1].ret = "judge_failed" =>
        \A h \in Range(run[1].pool) :
            /\ headlines[h].batch = run[1].batch_num
            /\ headlines[h].survived # "absent"

\* The day's headlines with Survived = true, each with its Rank.
RankedCohort(day) == {<<headlines[h].rank, h>> : h \in Cohort(day)}

\* C17: after a run that failed, the day's headlines with Survived = true
\* and their Ranks are those the run found at its entry, or those of the
\* failed run's whole result, never a mixture.
C17_FailureKeepsACohort ==
    run[1].ret \in {"judge_failed", "crashed"} =>
        \/ RankedCohort(run[1].today) = Range(run[1].prev)
        \/ RankedCohort(run[1].today) = Range(run[1].survivors)

\* C18: when two runs of a day overlap, no step lowers the
\* TournamentBatch of a headline, and whenever no run is under way a day
\* has at most 64 headlines with Survived = true.
C18_OverlapIsBenign ==
    [][/\ \A h \in DOMAIN headlines : headlines'[h].batch >= headlines[h].batch
       /\ (\A r \in Slots : run'[r].pc = "idle") =>
             \A day \in Days :
                 Cardinality({h \in DOMAIN headlines' :
                                 /\ headlines'[h].ymd = day
                                 /\ headlines'[h].survived = "true"}) <= SURVIVOR_COUNT
    ]_tvars

\* The rank run_tournament gave a headline.
RankIn(by_rank, h) == CHOOSE k \in 1..Len(by_rank) : h \in Range(by_rank[k])

\* The seeds of the judge that orders by one total order of the headlines,
\* and for each the seed of the same judge with the other random draws.
FixedJudgeSeeds == {3, 4}

OtherDraws(seed) == 7 - seed

\* C26: with a judge that orders every group by the same total order, the
\* ranks run_tournament has computed for a pool are the ranks a second call
\* on the same pool computes, headline by headline.
C26_SameRanksTwice ==
    (run[1].pc \notin {"idle", "single"} /\ rng \in FixedJudgeSeeds) =>
        \E again \in {run_tournament(run[1].pool, OtherDraws(rng))} :
            \A h \in Range(run[1].pool) :
                RankIn(run[1].by_rank, h) = RankIn(again, h)

\* The groups rank_group is called on first in a run, and the group of its
\* final round.
JudgedGroups(rr) ==
    (IF Len(rr.pool) > FINAL_ROUND_MAX THEN Range(FirstGroups(rr)) ELSE {})
        \cup {RoundsOf(rr).remaining}

\* The index of the first occurrence of a letter in a line, 0 if none.
FirstMention(valid, letter) ==
    IF \E i \in 1..Len(valid) : valid[i] = letter
    THEN CHOOSE i \in 1..Len(valid) :
            valid[i] = letter /\ \A j \in 1..(i - 1) : valid[j] # letter
    ELSE 0

\* C27: whatever the judge answers, what rank_group returns for a group
\* holds every member of the group once and nothing else, with the members
\* the ranking line mentions in the order of their first mention and
\* before every member it does not mention; and the ranks run_tournament
\* has computed hold every headline of the pool once.
C27_JudgeAnomalyRecovery ==
    (run[1].pc \notin {"idle", "single"}) =>
        /\ \A group \in JudgedGroups(run[1]) :
              \E ordered \in {rank_group(group, rng)},
                 valid \in {ParseRanking(JudgeResponse(group, rng), Len(group))} :
                 /\ Len(ordered) = Len(group)
                 /\ Range(ordered) = Range(group)
                 /\ \A a, b \in 1..Len(group) :
                       LET at(h) == CHOOSE i \in 1..Len(ordered) : ordered[i] = h
                           fa == FirstMention(valid, a)
                           fb == FirstMention(valid, b)
                       IN  (fa > 0 /\ (fb = 0 \/ fa < fb)) => at(group[a]) < at(group[b])
        /\ \E ranked \in {Flatten(run[1].by_rank)} :
              /\ Len(ranked) = Len(run[1].pool)
              /\ \A h \in Range(run[1].pool) : Count(ranked, h) = 1

\* C27's case: the judge answered "banana" for every group of a pool of 35,
\* and the run has returned with every headline of the pool written.
C27_Witness ==
    /\ rng = 5
    /\ run[1].ret = "ranked"
    /\ Len(run[1].pool) = 35
    /\ \A h \in Range(run[1].pool) : headlines[h].batch = 1

\* C28: when the groups of the first elimination round of a run have
\* unequal sizes, the last headline of the shuffled pool is in no group and
\* is among the headlines that enter the next round.
C28_LastMemberGetsBye ==
    (/\ run[1].pc \notin {"idle", "single"}
     /\ Len(run[1].pool) > FINAL_ROUND_MAX
     /\ \E g1, g2 \in Range(FirstGroups(run[1])) : Len(g1) # Len(g2)) =>
        \E remaining \in {Shuffle(run[1].pool, rng)} :
            LET last == remaining[Len(remaining)]
            IN  /\ \A group \in Range(FirstGroups(run[1])) : last \notin Range(group)
                /\ last \in Range(EliminationRound(remaining, rng).next_remaining)

\* The intra-group positions at which a round eliminated headlines.
PositionsOf(round_eliminated) == {e[2] : e \in Range(round_eliminated)}

RECURSIVE TiersAfter(_, _)
\* The number of (round, position) tiers of the rounds after round r.
TiersAfter(rounds, r) ==
    IF r >= Len(rounds) THEN 0
    ELSE Cardinality(PositionsOf(rounds[r + 1])) + TiersAfter(rounds, r + 1)

\* C29: the ranks run_tournament has computed give the final-round order
\* the ranks 1..|final|, and a headline eliminated in round r at position
\* pos the rank |final| + the number of tiers of the later rounds + the
\* number of positions of round r up to pos; the rank keys are 1..M with a
\* headline at every one, and a headline eliminated in a later round has a
\* smaller rank than one eliminated in an earlier round.
C29_RankAssignmentOrder ==
    (run[1].pc \notin {"idle", "single"}) =>
        \E elim \in {RoundsOf(run[1])}, by_rank \in {run[1].by_rank} :
          \E final_ordered \in {rank_group(elim.remaining, rng)} :
            LET rounds == elim.elimination_rounds
                final  == Len(final_ordered)
                tier(r, pos) ==
                    final + TiersAfter(rounds, r)
                          + Cardinality({p \in PositionsOf(rounds[r]) : p <= pos})
            IN  /\ \A i \in 1..final : by_rank[i] = <<final_ordered[i]>>
                /\ \A r \in 1..Len(rounds) : \A e \in Range(rounds[r]) :
                      RankIn(by_rank, e[1]) = tier(r, e[2])
                /\ Len(by_rank) = final + TiersAfter(rounds, 0)
                /\ \A k \in 1..Len(by_rank) : by_rank[k] # <<>>
                /\ \A r, q \in 1..Len(rounds) :
                      \A e \in Range(rounds[r]), d \in Range(rounds[q]) :
                         r > q => RankIn(by_rank, e[1]) < RankIn(by_rank, d[1])

\* C29's case: a run with two elimination rounds has ranked its pool, and
\* a rank is shared by the headlines of a tier.
C29_Witness ==
    /\ run[1].pc \notin {"idle", "single"}
    /\ Len(RoundsOf(run[1]).elimination_rounds) = 2
    /\ \E k \in 1..Len(run[1].by_rank) : Len(run[1].by_rank[k]) > 1

RECURSIVE RoundInputs(_, _)
\* The value of remaining at the start of every turn of the while loop.
RoundInputs(remaining, seed) ==
    IF Len(remaining) > FINAL_ROUND_MAX
    THEN <<remaining>> \o RoundInputs(EliminationRound(remaining, seed).next_remaining, seed)
    ELSE <<>>

\* C30: every elimination round of a run, over n > 20 headlines, cuts them
\* into g groups with g the integer nearest to n / 15, every headline in
\* one group and the sizes at most 1 apart; the first 3 of the order of
\* every group enter the next round, 3g in all, and the other n - 3g are
\* recorded with the position they finished at in their group.  The
\* headlines the run has ranked in its final round are the ones that
\* entered it from the last elimination round.
C30_RoundPartitionsAndAdvances ==
    (run[1].pc \notin {"idle", "single"}) =>
      /\ \E inputs \in {RoundInputs(Shuffle(run[1].pool, rng), rng)} :
            inputs # <<>> =>
               \E last \in {EliminationRound(inputs[Len(inputs)], rng)} :
                  {h \in Range(run[1].pool) :
                      RankIn(run[1].by_rank, h) <= Len(last.next_remaining)}
                     = Range(last.next_remaining)
      /\
        \A remaining \in Range(RoundInputs(Shuffle(run[1].pool, rng), rng)) :
          \E n \in {Len(remaining)}, round \in {EliminationRound(remaining, rng)} :
            \E groups \in {distribute_into_groups(remaining, NumGroups(n))} :
              LET g == Len(groups)
              IN  /\ n > FINAL_ROUND_MAX
                  /\ 2 * GROUP_TARGET * g - GROUP_TARGET < 2 * n
                  /\ 2 * n < 2 * GROUP_TARGET * g + GROUP_TARGET
                  /\ \A h \in Range(remaining) :
                        Cardinality({i \in 1..g : h \in Range(groups[i])}) = 1
                  /\ \A i, j \in 1..g : Len(groups[i]) - Len(groups[j]) <= 1
                  /\ Len(round.next_remaining) = ADVANCE_COUNT * g
                  /\ Len(round.round_eliminated) = n - ADVANCE_COUNT * g
                  /\ \A i \in 1..g :
                        \E ordered \in {rank_group(groups[i], rng)} :
                           \A k \in 1..Len(ordered) :
                              IF k <= ADVANCE_COUNT
                              THEN Count(round.next_remaining, ordered[k]) = 1
                              ELSE Count(round.round_eliminated, <<ordered[k], k - 1>>) = 1

\* C30's case: a run over 100 headlines, whose first round has 7 groups
\* of 15 and of 14 and whose second round has 1 group of 21.
C30_Witness ==
    /\ run[1].pc \notin {"idle", "single"}
    /\ Len(run[1].pool) = 100
    /\ \E inputs \in {RoundInputs(Shuffle(run[1].pool, rng), rng)} :
          /\ Len(inputs) = 2
          /\ Len(inputs[2]) = 21
          /\ {Len(group) : group \in Range(FirstGroups(run[1]))} = {14, 15}

(***************************************************************************)
(* The reader: select_headlines of Get/get.py.                             *)
(***************************************************************************)
POOL_SIZES == <<16, 16, 32, 64>>
RESULT_SIZE == 4

\* str.lower() of a character.
LowerChar(c) ==
    CASE c = "R" -> "r" [] c = "O" -> "o" [] c = "V" -> "v" [] c = "E" -> "e"
      [] c = "M" -> "m" [] c = "N" -> "n" [] OTHER -> c

\* str.lower() of a text, a sequence of characters.
Lower(text) == [i \in 1..Len(text) |-> LowerChar(text[i])]

\* q in text, for Python strings.
Contains(q, text) ==
    \E i \in 0..(Len(text) - Len(q)) : SubSeq(text, i + 1, i + Len(q)) = q

\* The search query of the calls that carry one.
QueryText == <<"R", "o", "v">>

\* The Headline and the OriginalHeadline of the headline with an id.
HeadlineText(id) ==
    IF id % 8 = 1 THEN <<"r", "o", "v", "e", "r", "s">> ELSE <<"M", "o", "o", "n">>

OriginalText(id) ==
    IF id > 20 /\ id % 2 = 0 THEN <<"R", "O", "V", "E", "R">> ELSE <<"n", "e", "w", "s">>

\* The test of the matching list: query_lower in Headline.lower() or
\* query_lower in OriginalHeadline.lower().
Matches(query, headline, original) ==
    \/ Contains(Lower(query), Lower(headline))
    \/ Contains(Lower(query), Lower(original))

\* A headline as the reader sees it: hit says whether its Headline or its
\* OriginalHeadline contains the search query.
ReaderItem(id, story, rank) ==
    [id |-> id, story |-> story, rank |-> rank,
     hit |-> Matches(QueryText, HeadlineText(id), OriginalText(id))]

\* The lists of headlines the calls are given: none; five stories, ranked;
\* five stories, the odd ones unranked; sixteen headlines of one story
\* ahead of three other stories; nineteen headlines of three stories,
\* listed against their rank; three headlines listed twice; eight
\* headlines of six stories, of which the five that match the query, of four
\* stories, have the worst ranks; five stories before their first
\* tournament, none ranked.
HeadlineLists ==
    { <<>>,
      [h \in 1..5  |-> ReaderItem(h, h, h)],
      [h \in 1..5  |-> ReaderItem(h, h, IF h % 2 = 1 THEN Absent ELSE h)],
      [h \in 1..19 |-> ReaderItem(h, IF h <= 16 THEN 1 ELSE h, h)],
      [h \in 1..19 |-> ReaderItem(h, 1 + (h % 3), 20 - h)],
      [h \in 1..6  |-> ReaderItem(1 + (h % 3), 1 + (h % 3), 1 + (h % 3))],
      [h \in 1..8  |-> ReaderItem(20 + h,
                                  CASE h = 3 -> 22 [] h = 8 -> 26 [] OTHER -> 20 + h,
                                  IF h % 2 = 0 THEN 20 + h ELSE h)],
      [h \in 1..5  |-> ReaderItem(6 - h, 6 - h, Absent)] }

\* requested_headline_id: none, an id of the lists, an unknown id.
Slugs == {Absent, 2, 99}

\* seen_as_top: nothing, the first two ids, every id.
SeenSets == {{}, {1, 2}, 1..19}

RECURSIVE StableSort(_, _)
\* sorted(list, key=...): stable; keys[i] is the key of list[i].
StableSort(list, keys) ==
    IF list = <<>> THEN <<>>
    ELSE LET m == CHOOSE i \in 1..Len(list) :
                    \A j \in 1..Len(list) :
                        keys[i] < keys[j] \/ (keys[i] = keys[j] /\ i <= j)
             rest(q) == SubSeq(q, 1, m - 1) \o SubSeq(q, m + 1, Len(q))
         IN  <<list[m]>> \o StableSort(rest(list), rest(keys))

\* sorted_headlines: by get_rank, the unranked after the highest rank.
sorted_headlines(list) ==
    LET ranks    == {list[i].rank : i \in 1..Len(list)} \cup {0}
        max_rank == CHOOSE r \in ranks : \A q \in ranks : q <= r
        get_rank(h) == IF h.rank # Absent THEN h.rank ELSE max_rank + 1
    IN  StableSort(list, [i \in 1..Len(list) |-> get_rank(list[i])])

\* The first element of list that satisfies ok, as a list of 0 or 1.
FirstWhere(list, ok(_)) == Take(SelectSeq(list, ok), 1)

RECURSIVE AddUnique(_, _, _, _)
\* A loop that appends the headlines of list whose StoryId is not yet
\* picked, until the result has 4 entries: [result, by].
AddUnique(list, result, by, step) ==
    IF list = <<>> \/ Len(result) >= RESULT_SIZE THEN [result |-> result, by |-> by]
    ELSE IF Head(list).story \in {result[i].story : i \in 1..Len(result)}
         THEN AddUnique(Tail(list), result, by, step)
         ELSE AddUnique(Tail(list), Append(result, Head(list)), Append(by, step), step)

\* The orders random.shuffle can leave a list in.
Shuffles(list) ==
    LET n == Len(list)
        perms == {p \in [1..n -> 1..n] : \A i, j \in 1..n : p[i] = p[j] => i = j}
    IN  {[i \in 1..n |-> list[p[i]]] : p \in perms}

\* Variant of the pool of a pool size: the StoryId filter is missing.
PoolOfAnyStory(sorted, pool_size, picked_story_ids) == Take(sorted, pool_size)

\* The pool of a pool size: the prefix of the sorted list, without the
\* stories already picked.
PoolOf(sorted, pool_size, picked_story_ids) ==
    SelectSeq(Take(sorted, pool_size), LAMBDA h : h.story \notin picked_story_ids)

\* picked_story_ids, which the code keeps beside result.
picked_story_ids(result) == {result[i].story : i \in 1..Len(result)}

IdleSel ==
    [pc |-> "idle", headlines |-> <<>>, slug |-> Absent, query |-> FALSE, seen |-> {},
     sorted |-> <<>>, result |-> <<>>, by |-> <<>>, pool |-> 0]

\* A call of select_headlines with its arguments, before its first line.
RInit ==
    \E list \in HeadlineLists, slug \in Slugs, query \in BOOLEAN, seen \in SeenSets :
        sel = [IdleSel EXCEPT !.pc = "start", !.headlines = list, !.slug = slug,
                              !.query = query, !.seen = seen]

\* if not headlines: return []; else the sort.
SelectStart ==
    /\ sel.pc = "start"
    /\ sel' = IF sel.headlines = <<>> THEN [sel EXCEPT !.pc = "done"]
              ELSE [sel EXCEPT !.pc = "slug", !.sorted = sorted_headlines(sel.headlines)]
    /\ UNCHANGED <<lvars, tvars, svars, fvars>>

\* The requested headline, when there is one in the list, comes first.
SlugStep ==
    /\ sel.pc = "slug"
    /\ LET found == IF sel.slug = Absent THEN <<>>
                    ELSE FirstWhere(sel.sorted, LAMBDA h : h.id = sel.slug)
       IN  sel' = [sel EXCEPT !.pc = "top", !.result = found,
                              !.by = [i \in 1..Len(found) |-> "slug"]]
    /\ UNCHANGED <<lvars, tvars, svars, fvars>>

\* With no requested headline and no query: the highest-ranked unseen one.
TopUnseen ==
    /\ sel.pc = "top"
    /\ LET found == IF sel.result = <<>> /\ ~sel.query
                    THEN FirstWhere(sel.sorted,
                            LAMBDA h : h.id \notin sel.seen
                                       /\ h.story \notin picked_story_ids(sel.result))
                    ELSE <<>>
       IN  sel' = [sel EXCEPT !.pc = "search", !.result = @ \o found,
                              !.by = @ \o [i \in 1..Len(found) |-> "top"]]
    /\ UNCHANGED <<lvars, tvars, svars, fvars>>

\* Variant of the search step: the query is ignored.
SearchIgnoresQuery ==
    /\ sel.pc = "search"
    /\ sel' = [sel EXCEPT !.pc = "pools", !.pool = 1]
    /\ UNCHANGED <<lvars, tvars, svars, fvars>>

\* With a query: the matching headlines, shuffled, one per story.
Search ==
    /\ sel.pc = "search"
    /\ IF sel.query
       THEN LET matching == SelectSeq(sel.sorted,
                               LAMBDA h : h.story \notin picked_story_ids(sel.result) /\ h.hit)
            IN  \E shuffled \in Shuffles(matching) :
                   \E r \in {AddUnique(shuffled, sel.result, sel.by, "search")} :
                      sel' = [sel EXCEPT !.pc = "pools", !.pool = 1,
                                         !.result = r.result, !.by = r.by]
       ELSE sel' = [sel EXCEPT !.pc = "pools", !.pool = 1]
    /\ UNCHANGED <<lvars, tvars, svars, fvars>>

\* One turn of the loop over the pool sizes: random.choice of the pool.
PoolPick ==
    /\ sel.pc = "pools"
    /\ IF sel.pool > Len(POOL_SIZES) \/ Len(sel.result) >= RESULT_SIZE
       THEN sel' = [sel EXCEPT !.pc = "fill"]
       ELSE LET pool == PoolOf(sel.sorted, POOL_SIZES[sel.pool], picked_story_ids(sel.result))
            IN  IF pool = <<>> THEN sel' = [sel EXCEPT !.pool = @ + 1]
                ELSE \E k \in 1..Len(pool) :
                        sel' = [sel EXCEPT !.pool = @ + 1,
                                           !.result = Append(@, pool[k]),
                                           !.by = Append(@, "pool")]
    /\ UNCHANGED <<lvars, tvars, svars, fvars>>

\* Variant of the last step: no fill in rank order.
FillSkipped ==
    /\ sel.pc = "fill"
    /\ sel' = [sel EXCEPT !.pc = "done", !.result = Take(@, RESULT_SIZE),
                          !.by = Take(@, RESULT_SIZE)]
    /\ UNCHANGED <<lvars, tvars, svars, fvars>>

\* The remaining slots in rank order, and return result[:4].
Fill ==
    /\ sel.pc = "fill"
    /\ \E r \in {AddUnique(sel.sorted, sel.result, sel.by, "fill")} :
          sel' = [sel EXCEPT !.pc = "done", !.result = Take(r.result, RESULT_SIZE),
                             !.by = Take(r.by, RESULT_SIZE)]
    /\ UNCHANGED <<lvars, tvars, svars, fvars>>

RNext == SelectStart \/ SlugStep \/ TopUnseen \/ Search \/ PoolPick \/ Fill

(***************************************************************************)
(* The reader's handler: get of Get/get.py up to its call of               *)
(* select_headlines, on the partitions of three days.                      *)
(***************************************************************************)
\* A headline of the store as get reads it.
StoredItem(id, story, rank, cross) ==
    [id |-> id, story |-> story, Rank |-> rank, CrossDayRank |-> cross,
     hit |-> Matches(QueryText, HeadlineText(id), OriginalText(id))]

\* What the partition of the current day holds: nothing; three headlines
\* before the cross-day tournament, one unranked; four headlines of which
\* two carry CrossDayRank, in an order that differs from the order by Rank.
TodayLists ==
    { <<>>,
      <<StoredItem(1, 1, 2, Absent), StoredItem(2, 2, 1, Absent), StoredItem(3, 3, Absent, Absent)>>,
      <<StoredItem(1, 1, 1, 3), StoredItem(2, 2, 2, 1),
        StoredItem(3, 3, Absent, Absent), StoredItem(4, 1, 3, Absent)>> }

\* What the partition of the day before holds.
YesterdayLists ==
    { <<>>,
      <<StoredItem(5, 5, 2, Absent), StoredItem(6, 6, 1, Absent)>>,
      <<StoredItem(5, 5, 1, 2), StoredItem(6, 6, Absent, Absent), StoredItem(7, 5, 2, Absent)>> }

\* What the partition of two days before holds.
DayBeforeLists ==
    { <<>>,
      <<StoredItem(8, 8, 1, Absent), StoredItem(9, 9, Absent, Absent)>>,
      <<StoredItem(8, 8, 2, 4), StoredItem(9, 9, 1, Absent)>> }

\* The headlines get collects: for the today view the three days; for the
\* view of a day that day, and the day before now when that day holds
\* fewer than 4 headlines.
CollectedHeadlines(is_today, day_list, yesterday, day_before) ==
    IF is_today THEN day_list \o yesterday \o day_before
    ELSE IF Len(day_list) < RESULT_SIZE THEN day_list \o yesterday
    ELSE day_list

\* Variant of rank_field: the reader never uses CrossDayRank.
rank_field_always_rank(is_today, list) == "Rank"

\* rank_field: CrossDayRank for the today view once a headline carries it.
rank_field(is_today, list) ==
    IF is_today /\ \E i \in 1..Len(list) : list[i].CrossDayRank # Absent
    THEN "CrossDayRank" ELSE "Rank"

\* h.get(rank_field) of select_headlines: the headline with the chosen
\* field as its rank.
WithRankField(h, field) ==
    [id |-> h.id, story |-> h.story, rank |-> h[field], hit |-> h.hit,
     Rank |-> h.Rank, CrossDayRank |-> h.CrossDayRank]

\* A request before get's first line: day is Absent for the today view,
\* 1 for the view of the current day's date, 2 for the view of the day
\* before.
GInit ==
    \E day \in {Absent, 1, 2}, t \in TodayLists, y \in YesterdayLists,
       b \in DayBeforeLists, query \in BOOLEAN :
        sel = [day |-> day, days |-> <<t, y, b>>, field |-> "none"] @@
              [IdleSel EXCEPT !.pc = "get", !.query = query]

\* get up to the call of select_headlines.
GetStep ==
    /\ sel.pc = "get"
    /\ LET is_today == sel.day = Absent
           day_list == IF is_today THEN sel.days[1] ELSE sel.days[sel.day]
           list     == CollectedHeadlines(is_today, day_list, sel.days[2], sel.days[3])
           field    == rank_field(is_today, list)
       IN  sel' = [sel EXCEPT !.pc = "start", !.field = field,
                      !.headlines = [i \in 1..Len(list) |-> WithRankField(list[i], field)]]
    /\ UNCHANGED <<lvars, tvars, svars, fvars>>

GNext == GetStep \/ RNext

\* C5: whatever the list, the requested id, the query and the seen set,
\* the entries select_headlines returns have pairwise distinct StoryId.
C5_DistinctStories ==
    sel.pc = "done" =>
        \A i, j \in 1..Len(sel.result) :
            sel.result[i].story = sel.result[j].story => i = j

\* C5's case: a call has returned 4 entries that the requested id, the
\* expanding pools and the rank-order fill chose.
C5_Witness ==
    /\ sel.pc = "done"
    /\ Len(sel.result) = RESULT_SIZE
    /\ {"slug", "pool", "fill"} \subseteq Range(sel.by)

\* The stories of the headlines of a list that match the query.
MatchingStories(list) == {list[i].story : i \in {j \in 1..Len(list) : list[j].hit}}

\* C23: when a call with a query and no requested headline has returned,
\* no entry that does not match the query stands before one that matches,
\* and when the matching headlines are of 4 stories or more the 4 entries
\* all match.
C23_MatchingFirst ==
    (sel.pc = "done" /\ sel.query /\ sel.slug = Absent) =>
        /\ \A i, j \in 1..Len(sel.result) :
              (sel.result[i].hit /\ ~sel.result[j].hit) => i < j
        /\ Cardinality(MatchingStories(sel.headlines)) >= RESULT_SIZE =>
              /\ Len(sel.result) = RESULT_SIZE
              /\ \A i \in 1..RESULT_SIZE : sel.result[i].hit

\* C23's case: 4 matching entries of 4 stories, out of rank order, chosen
\* ahead of better-ranked headlines that do not match.
C23_Witness ==
    /\ sel.pc = "done" /\ sel.query /\ sel.slug = Absent
    /\ Len(sel.result) = RESULT_SIZE
    /\ \A i \in 1..RESULT_SIZE : sel.result[i].hit
    /\ sel.result[1].rank > sel.result[2].rank
    /\ \E i \in 1..Len(sel.headlines) :
          ~sel.headlines[i].hit /\ sel.headlines[i].rank < sel.result[2].rank

\* C24: once select_headlines has sorted the headlines get collected, the
\* order is by CrossDayRank exactly when the view is the today view and a
\* headline of the three days carries CrossDayRank, and by Rank otherwise;
\* the headlines that have the chosen rank come first, in ascending order
\* of it, and the headlines without it follow in their input order.
C24_OrderedByChosenRank ==
    (sel.pc \notin {"idle", "get", "start"} /\ sel.headlines # <<>>) =>
        LET union   == sel.days[1] \o sel.days[2] \o sel.days[3]
            cross   == /\ sel.day = Absent
                       /\ \E i \in 1..Len(union) : union[i].CrossDayRank # Absent
            chosen  == IF cross THEN "CrossDayRank" ELSE "Rank"
            has(h)  == h[chosen] # Absent
            ranked  == SelectSeq(sel.sorted, has)
            without == SelectSeq(sel.sorted, LAMBDA h : ~has(h))
        IN  /\ sel.day = Absent =>
                  [i \in 1..Len(sel.headlines) |-> sel.headlines[i].id]
                     = [i \in 1..Len(union) |-> union[i].id]
            /\ sel.sorted = ranked \o without
            /\ \A i, j \in 1..Len(ranked) : i < j => ranked[i][chosen] <= ranked[j][chosen]
            /\ without = SelectSeq(sel.headlines, LAMBDA h : ~has(h))
            /\ \A i \in 1..Len(sel.headlines) :
                  Count(sel.sorted, sel.headlines[i]) = Count(sel.headlines, sel.headlines[i])

\* C24's case: a request of the today view whose three days hold headlines
\* with and without CrossDayRank, sorted in an order that is not the order
\* by Rank, with two headlines without CrossDayRank at the end in input
\* order against their Rank.
C24_Witness ==
    /\ sel.pc = "done"
    /\ sel.day = Absent
    /\ sel.field = "CrossDayRank"
    /\ Len(sel.sorted) >= 6
    /\ \E i \in 1..(Len(sel.sorted) - 1) :
          /\ sel.sorted[i].CrossDayRank # Absent
          /\ sel.sorted[i + 1].CrossDayRank # Absent
          /\ sel.sorted[i].Rank > sel.sorted[i + 1].Rank
    /\ \E i \in 1..(Len(sel.sorted) - 1) :
          /\ sel.sorted[i].CrossDayRank = Absent
          /\ sel.sorted[i + 1].CrossDayRank = Absent
          /\ sel.sorted[i].Rank > sel.sorted[i + 1].Rank
          /\ sel.sorted[i + 1].Rank # Absent

\* C25: a call of select_headlines returns min(4, number of distinct
\* StoryIds of the list) entries, none for the empty list, and when no
\* headline has a rank its sorted order is the input order.
C25_FillsEverySlot ==
    sel.pc = "done" =>
        /\ Len(sel.result) =
              Min(RESULT_SIZE,
                  Cardinality({sel.headlines[i].story : i \in 1..Len(sel.headlines)}))
        /\ (sel.headlines # <<>> /\ \A i \in 1..Len(sel.headlines) :
                                       sel.headlines[i].rank = Absent)
              => sel.sorted = sel.headlines

\* C25's case: a list of which no headline has a rank, and a call without
\* a requested headline that returned 4 entries, the first of them the
\* first of the list that is not in the seen set.
C25_Witness ==
    /\ sel.pc = "done"
    /\ sel.headlines # <<>>
    /\ \A i \in 1..Len(sel.headlines) : sel.headlines[i].rank = Absent
    /\ Len(sel.result) = RESULT_SIZE
    /\ sel.seen = {1, 2}
    /\ sel.by[1] = "top"
    /\ sel.result[1] = sel.headlines[1]

\* C22: when a call with a seen set has returned, the entry in slot 0 is
\* not a headline of the seen set, unless it is the requested headline.
C22_SeenNeverFirst ==
    (sel.pc = "done" /\ sel.seen # {} /\ sel.result # <<>> /\ sel.by[1] # "slug") =>
        sel.result[1].id \notin sel.seen

(***************************************************************************)
(* The Subvert worker: subvert of Subvert/subvert.py, on the stream of     *)
(* the Stories table, and one day partition of SubvertedHeadlines.         *)
(***************************************************************************)
\* The stories of the day whose change events are delivered.
StoryIds == {1, 2}

EventNames == {"INSERT", "MODIFY", "REMOVE"}

StreamRecords == [eventName : EventNames, story : StoryIds]

\* The batches of one invocation: one or two records.
Batches ==
    {<<a>> : a \in StreamRecords} \cup {<<a, b>> : a, b \in StreamRecords}

\* The batches that hold no story twice.
BatchesOfDistinctStories ==
    {b \in Batches : \A i, j \in 1..Len(b) : b[i].story = b[j].story => i = j}

\* The random 5-character SubvertedTitleIds, in sort-key order.
HeadlineIdSpace == 1..3

\* How many headlines compute_subverted_titles returns for a story.
GenSizes == {0, 1, 2}

\* do_headlines_exist_for_story: a Query of the partition with Limit=1 and
\* the filter StoryId = :sid.  The store reads Limit items in sort-key
\* order and filters what it has read: the result is not empty exactly
\* when the first item of the partition is of this story.
do_headlines_exist_for_story(items, story_id) ==
    /\ items # {}
    /\ LET first == CHOOSE h \in items : \A g \in items : h.id <= g.id
       IN  first.story = story_id

\* ret is how the last invocation ended: "returned", or "raised" when an
\* exception left subvert.
IdleWorker ==
    [pc |-> "idle", batch |-> <<>>, i |-> 0, records_to_process |-> <<>>,
     threads |-> <<>>, ret |-> "none"]

\* A process_story thread before compute_subverted_titles.
\* error is set when process_story raised: the future holds the exception.
NewThread(story) ==
    [pc |-> "compute", story |-> story, todo |-> <<>>, created |-> 0, error |-> FALSE]

SInit ==
    /\ partition = {}
    /\ worker = [v \in Slots |-> IdleWorker]
    /\ saves = 0
    /\ deliveries = 0

\* The stream delivers a batch to an invocation.
Deliver(v, batch) ==
    /\ worker[v].pc = "idle"
    /\ deliveries < MaxDeliveries
    /\ worker' = [worker EXCEPT ![v] = [IdleWorker EXCEPT !.pc = "check", !.batch = batch, !.i = 1]]
    /\ deliveries' = deliveries + 1
    /\ UNCHANGED <<lvars, tvars, rvars, fvars, partition, saves>>

\* One turn of the loop over event["Records"]; after the last record the
\* return, or the start of one thread per record to process.
CheckRecord(v) ==
    /\ worker[v].pc = "check"
    /\ LET w      == worker[v]
           record == w.batch[w.i]
           skip   == \/ record.eventName \notin {"INSERT", "MODIFY"}
                     \/ do_headlines_exist_for_story(partition, record.story)
           todo   == IF skip THEN w.records_to_process
                     ELSE Append(w.records_to_process, record.story)
       IN  worker' = [worker EXCEPT ![v] =
              IF w.i < Len(w.batch)
              THEN [w EXCEPT !.i = @ + 1, !.records_to_process = todo]
              ELSE IF todo = <<>> THEN [IdleWorker EXCEPT !.ret = "returned"]
              ELSE [w EXCEPT !.pc = "process", !.records_to_process = todo,
                             !.threads = [k \in 1..Len(todo) |-> NewThread(todo[k])]]]
    /\ UNCHANGED <<lvars, tvars, rvars, fvars, partition, saves, deliveries>>

\* The ids no item and no thread holds.
UnusedIds ==
    HeadlineIdSpace \ ({h.id : h \in partition} \cup
        UNION {UNION {Range(worker[v].threads[k].todo) :
                         k \in 1..Len(worker[v].threads)} : v \in Slots})

\* process_story up to the first put of save_headlines: the generated
\* headlines with their fresh ids, and the CreateTime of the call.
Compute(v, k) ==
    /\ worker[v].pc = "process"
    /\ worker[v].threads[k].pc = "compute"
    /\ \E ids \in SUBSET UnusedIds :
          /\ Cardinality(ids) \in GenSizes
          /\ worker' = [worker EXCEPT ![v].threads[k] =
                [@ EXCEPT !.pc = IF ids = {} THEN "done" ELSE "save",
                          !.todo = SortedSeq(ids), !.created = saves + 1]]
    /\ saves' = saves + 1
    /\ UNCHANGED <<lvars, tvars, rvars, fvars, partition, deliveries>>

\* One put_item of save_headlines.
Save(v, k) ==
    /\ worker[v].pc = "process"
    /\ worker[v].threads[k].pc = "save"
    /\ LET t == worker[v].threads[k]
       IN  /\ partition' = {h \in partition : h.id # Head(t.todo)} \cup
                           {[id |-> Head(t.todo), story |-> t.story, created |-> t.created]}
           /\ worker' = [worker EXCEPT ![v].threads[k] =
                 [t EXCEPT !.todo = Tail(@),
                           !.pc = IF Len(t.todo) = 1 THEN "done" ELSE "save"]]
    /\ UNCHANGED <<lvars, tvars, rvars, fvars, saves, deliveries>>

\* Every future has completed: the handler returns.
Return(v) ==
    /\ worker[v].pc = "process"
    /\ \A k \in 1..Len(worker[v].threads) : worker[v].threads[k].pc = "done"
    /\ worker' = [worker EXCEPT ![v] = [IdleWorker EXCEPT !.ret = "returned"]]
    /\ UNCHANGED <<lvars, tvars, rvars, fvars, partition, saves, deliveries>>

WorkerStep(v) ==
    \/ CheckRecord(v)
    \/ \E k \in 1..Len(worker[v].threads) : Compute(v, k)
    \/ \E k \in 1..Len(worker[v].threads) : Save(v, k)
    \/ Return(v)

\* One invocation at a time, no story twice in a batch.
SNext ==
    \/ \E batch \in BatchesOfDistinctStories : Deliver(1, batch)
    \/ WorkerStep(1)

\* Invocations that overlap: any batch for the first, a batch of one
\* record for the second.
SNextConc ==
    \/ \E batch \in Batches : Deliver(1, batch)
    \/ \E batch \in {b \in Batches : Len(b) = 1} : Deliver(2, batch)
    \/ \E v \in Slots : WorkerStep(v)

\* subvert without the try/except around future.result(): the exception
\* of one story leaves the handler.
SaveFailsUncaught(v, k) ==
    /\ worker[v].pc = "process"
    /\ worker[v].threads[k].pc = "save"
    /\ worker' = [worker EXCEPT ![v] = [IdleWorker EXCEPT !.ret = "raised"]]
    /\ UNCHANGED <<lvars, tvars, rvars, fvars, partition, saves, deliveries>>

\* A put_item of save_headlines raises: process_story ends there, subvert
\* logs the failure of the future, and the headlines not yet put stay
\* unsaved.
SaveFails(v, k) ==
    /\ worker[v].pc = "process"
    /\ worker[v].threads[k].pc = "save"
    /\ worker' = [worker EXCEPT ![v].threads[k].pc = "done",
                                ![v].threads[k].error = TRUE]
    /\ UNCHANGED <<lvars, tvars, rvars, fvars, partition, saves, deliveries>>

\* call_model raises in stage_1_brainstorm or in stage_2_generate:
\* process_story ends before save_headlines, and subvert logs the failure
\* of the future.
ComputeFails(v, k) ==
    /\ worker[v].pc = "process"
    /\ worker[v].threads[k].pc = "compute"
    /\ worker' = [worker EXCEPT ![v].threads[k].pc = "done",
                                ![v].threads[k].error = TRUE]
    /\ UNCHANGED <<lvars, tvars, rvars, fvars, partition, saves, deliveries>>

\* One invocation at a time, in which a model call or a store write may
\* fail.
SNextFailing ==
    \/ \E batch \in BatchesOfDistinctStories : Deliver(1, batch)
    \/ WorkerStep(1)
    \/ \E k \in 1..Len(worker[1].threads) : SaveFails(1, k)
    \/ \E k \in 1..Len(worker[1].threads) : ComputeFails(1, k)

\* The generation runs whose headlines the partition holds for a story.
GenerationsOf(items, story) == {h.created : h \in {g \in items : g.story = story}}

\* C7: once the partition holds a headline of a story, a later delivery of
\* the story's INSERT or MODIFY event adds no headline of that story,
\* whatever headlines of other stories the partition holds.
C7_ReplayAddsNothing ==
    [][\A h \in partition' \ partition :
          GenerationsOf(partition, h.story) \subseteq {h.created}]_svars

\* C8: however often the event of a story is delivered, twice in a batch or
\* to overlapping invocations, the partition holds the headlines of at most
\* one generation run of the story.
C8_OneGenerationPerStory ==
    \A story \in StoryIds : Cardinality(GenerationsOf(partition, story)) <= 1

\* C20: when process_story has ended for a story, with or without an
\* error, the partition holds every headline it generated or none.
C20_AllOrNothing ==
    \A v \in Slots : \A k \in 1..Len(worker[v].threads) :
        LET t == worker[v].threads[k]
        IN  t.pc = "done" =>
               \/ t.todo = <<>>
               \/ ~\E h \in partition : h.story = t.story /\ h.created = t.created

\* The headlines the partition holds of a process_story call.
SavedBy(items, t) == {h \in items : h.story = t.story /\ h.created = t.created}

\* C21: when an invocation ends in which process_story raised for a story,
\* it ends by returning and not by raising, every process_story call of
\* the batch has ended, and every call that did not raise has put every
\* headline it generated.
C21_FailureAbortsThatStoryOnly ==
    [][\A v \in Slots :
          (worker[v].pc = "process" /\ worker'[v].pc = "idle") =>
             /\ worker'[v].ret = "returned"
             /\ \A k \in 1..Len(worker[v].threads) :
                   LET t == worker[v].threads[k]
                   IN  /\ t.pc = "done"
                       /\ ~t.error =>
                             /\ t.created > 0
                             /\ t.todo = <<>>
                             /\ \A h \in SavedBy(partition, t) : h \in partition']_svars

\* C21: process_story raised for one story of a batch of two, and the
\* other story has its two headlines in the partition.
C21_Witness ==
    /\ worker[1].pc = "process"
    /\ \E k, j \in 1..Len(worker[1].threads) :
          /\ worker[1].threads[k].error
          /\ worker[1].threads[k].pc = "done"
          /\ ~worker[1].threads[j].error
          /\ worker[1].threads[j].pc = "done"
          /\ Cardinality(SavedBy(partition, worker[1].threads[j])) = 2

(***************************************************************************)
(* The Story Ingestor: fetch of Fetch/fetch.py, and the Stories table.     *)
(***************************************************************************)
\* The 5 categories and the wildcard.
CATEGORY_COUNT == 6
SAVED_PER_CATEGORY == 5
PAGES_PER_CATEGORY == 3

\* What the news API answers for a category: pages pages of size stories,
\* every story of a page but the last with an image, no story when broken.
UpstreamShapes == [pages : {0, 1, 2, 4}, size : {1, 3, 7}, images : BOOLEAN]

\* The sort keys the Stories table may have been created with.
StoriesSortKeys == {"StoryId", "Title"}

\* The results of page p of a category: nothing beyond the last page.
ResultsOf(category, p) ==
    IF p > upstream.pages THEN <<>>
    ELSE [k \in 1..upstream.size |->
            [title     |-> <<category, p, k>>,
             pubDate   |-> 1 + (k % 2),
             image_url |-> upstream.images \/ k < upstream.size]]

\* Whether the response of page p names a next page.
HasNextPage(p) == p < upstream.pages

\* The ConditionExpression of save_story's put_item: it fails when the
\* table holds an item of the same primary key.
ConditionFails(items, item) ==
    \E s \in items :
        /\ s.ymd = item.ymd
        /\ IF sort_key = "Title" THEN s.title = item.title
           ELSE s.story_id = item.story_id

\* The locals of fetch; ret is how the last run ended: with its summary,
\* or with an exception.
IdleFetcher ==
    [pc |-> "idle", run |-> 0, category |-> 0, page |-> 0, k |-> 0,
     saved |-> 0, calls |-> 0, story_ids |-> 0, ret |-> "none"]

FInit ==
    /\ stories = {}
    /\ fetcher = IdleFetcher
    /\ upstream \in UpstreamShapes
    /\ sort_key \in StoriesSortKeys

\* The scheduler starts a run of fetch.
StartFetch ==
    /\ fetcher.pc = "idle"
    /\ fetcher.run < MaxFetchRuns
    /\ fetcher' = [fetcher EXCEPT !.pc = "call", !.run = @ + 1, !.category = 1,
                                  !.page = 1, !.saved = 0, !.calls = 0,
                                  !.ret = "none"]
    /\ UNCHANGED <<lvars, tvars, rvars, svars, stories, upstream, sort_key>>

\* The locals after a category is left: the next category, or the return.
AfterCategory(f) ==
    IF f.category < CATEGORY_COUNT
    THEN [f EXCEPT !.pc = "call", !.category = @ + 1, !.page = 1, !.k = 0,
                   !.saved = 0, !.calls = 0]
    ELSE [f EXCEPT !.pc = "idle", !.category = 0, !.page = 0, !.k = 0,
                   !.saved = 0, !.calls = 0, !.ret = "summary"]

AfterPageWithoutCallLimit(f) ==
    IF \/ f.saved >= SAVED_PER_CATEGORY
       \/ ~HasNextPage(f.page)
    THEN AfterCategory(f)
    ELSE [f EXCEPT !.pc = "call", !.page = @ + 1, !.k = 0]

\* The locals after the for loop over a page's results.
AfterPage(f) ==
    IF \/ f.saved >= SAVED_PER_CATEGORY
       \/ ~HasNextPage(f.page)
       \/ f.calls >= PAGES_PER_CATEGORY
    THEN AfterCategory(f)
    ELSE [f EXCEPT !.pc = "call", !.page = @ + 1, !.k = 0]

\* fetch_stories_by_category: one API call; without results the category
\* is left.
ApiCall ==
    /\ fetcher.pc = "call"
    /\ LET f == [fetcher EXCEPT !.calls = @ + 1]
       IN  fetcher' = IF ResultsOf(f.category, f.page) = <<>> THEN AfterCategory(f)
                      ELSE [f EXCEPT !.pc = "story", !.k = 1]
    /\ UNCHANGED <<lvars, tvars, rvars, svars, stories, upstream, sort_key>>

\* One turn of the loop over the results: save_story and its count.
SaveStory ==
    /\ fetcher.pc = "story"
    /\ LET story == ResultsOf(fetcher.category, fetcher.page)[fetcher.k]
           item  == [ymd |-> story.pubDate, title |-> story.title,
                     story_id |-> fetcher.story_ids + 1]
           saved == story.image_url /\ ~ConditionFails(stories, item)
           f     == [fetcher EXCEPT !.saved = IF saved THEN @ + 1 ELSE @,
                                    !.story_ids = IF story.image_url THEN @ + 1 ELSE @]
       IN  /\ stories' = IF saved THEN stories \cup {item} ELSE stories
           /\ fetcher' = IF f.saved < SAVED_PER_CATEGORY /\ f.k < upstream.size
                         THEN [f EXCEPT !.k = @ + 1]
                         ELSE AfterPage(f)
    /\ UNCHANGED <<lvars, tvars, rvars, svars, upstream, sort_key>>

FNext == StartFetch \/ ApiCall \/ SaveStory

\* fetch_stories_by_category raises (status error, or any other status
\* than success): fetch_category and fetch catch nothing, the run ends in
\* the category it was fetching.
ApiError ==
    /\ fetcher.pc = "call"
    /\ fetcher' = [fetcher EXCEPT !.pc = "idle", !.ret = "raised"]
    /\ UNCHANGED <<lvars, tvars, rvars, svars, stories, upstream, sort_key>>

\* save_story re-raises a ClientError that is not the failed condition.
StoreError ==
    /\ fetcher.pc = "story"
    /\ ResultsOf(fetcher.category, fetcher.page)[fetcher.k].image_url
    /\ fetcher' = [fetcher EXCEPT !.pc = "idle", !.ret = "raised"]
    /\ UNCHANGED <<lvars, tvars, rvars, svars, stories, upstream, sort_key>>

\* Runs of the Story Ingestor in which a call may fail.
FNextFailing == StartFetch \/ ApiCall \/ SaveStory \/ ApiError \/ StoreError

\* C19: a failure while one category is fetched does not abort the run:
\* every run that has ended went through all 6 categories and returned
\* its summary.
C19_CategoryFailureDoesNotAbort ==
    (fetcher.pc = "idle" /\ fetcher.run >= 1) => fetcher.ret = "summary"

\* C9: with the Stories table keyed by (YearMonthDay, StoryId) and a fresh
\* StoryId per write, a second run of fetch against the same upstream
\* answers saves no story, and the table never holds two items of one
\* (YearMonthDay, Title).
C9_SecondRunSavesNothing ==
    [][sort_key = "StoryId" =>
          /\ fetcher.run >= 2 => stories' = stories
          /\ \A a, b \in stories' :
                (a.ymd = b.ymd /\ a.title = b.title) => a = b
    ]_fvars

\* The stories of a category in the Stories table.
SavedOf(items, category) == {s \in items : s.title[1] = category}

\* C34: for every category of a run, the wildcard included, fetch_category
\* makes an API call only while it made fewer than 3, saved fewer than 5
\* stories and, after the first call, the last response named a next page;
\* a run adds at most 5 stories of a category to the table.
C34_BoundedCallsAndSaves ==
    [][/\ fetcher.pc = "call" =>
              /\ fetcher.calls < PAGES_PER_CATEGORY
              /\ fetcher.saved < SAVED_PER_CATEGORY
              /\ fetcher.calls >= 1 => HasNextPage(fetcher.page - 1)
       /\ fetcher'.calls <= PAGES_PER_CATEGORY
       /\ \A c \in 1..CATEGORY_COUNT :
              Cardinality(SavedOf(stories', c)) <= SAVED_PER_CATEGORY * fetcher'.run
    ]_fvars

\* C34 witness: a run has ended against an upstream of 4 pages of one story
\* per category: 3 calls were made for each category, the wildcard
\* included, and the fourth page was never asked for.
C34_Witness ==
    /\ fetcher.pc = "idle"
    /\ fetcher.run = 1
    /\ upstream.pages = 4
    /\ upstream.size = 1
    /\ \A c \in 1..CATEGORY_COUNT :
          {s.title[2] : s \in SavedOf(stories, c)} = 1..PAGES_PER_CATEGORY

(***************************************************************************)
(* The judge gateway: tournament.py, _do_api_call.                         *)
(***************************************************************************)
MAX_RETRIES == 4
RETRY_BASE_DELAY == 2

\* TOURNAMENT_PROVIDER: the provider the code speaks to, or any other name.
Providers == {"anthropic", "unknown"}

\* What client.messages.create does with one request: it returns a response
\* or raises for a rate limit (429), a server error (5xx) or a rejected
\* request (4xx other than 429).
ProviderAnswers == {"ok", "429", "500", "400"}

\* The errors the spec calls non-retryable.
NonRetryable == {"400", "ValueError"}

\* requests are the answers to the requests sent, errors the exceptions
\* caught, sleeps the whole seconds of each time.sleep (the jitter is below 1).
IdleGateway ==
    [pc |-> "idle", provider |-> "none", attempt |-> 0,
     requests |-> <<>>, errors |-> <<>>, sleeps |-> <<>>]

\* The call starts the loop over range(MAX_RETRIES + 1).
ApiCallStart(provider) ==
    /\ gateway.pc \in {"idle", "returned", "raised"}
    /\ gateway' = [IdleGateway EXCEPT !.pc = "try", !.provider = provider]
    /\ UNCHANGED <<tvars, rvars, svars, fvars, globals, built, getter, stage1, loop>>

is_last_attempt_one_later(attempt) == attempt = MAX_RETRIES + 1

is_last_attempt(attempt) == attempt = MAX_RETRIES

\* except Exception: re-raise on the last attempt, else go to sleep.
Caught(g, e) ==
    [g EXCEPT !.errors = Append(@, e),
              !.pc = IF is_last_attempt(g.attempt) THEN "raised" ELSE "sleep"]

\* The body of the try: one request to the provider, or the ValueError of
\* an unknown provider.
Attempt ==
    /\ gateway.pc = "try"
    /\ IF gateway.provider = "anthropic"
       THEN \E answer \in ProviderAnswers :
                LET sent == [gateway EXCEPT !.requests = Append(@, answer)]
                IN  gateway' = IF answer = "ok"
                               THEN [sent EXCEPT !.pc = "returned"]
                               ELSE Caught(sent, answer)
       ELSE gateway' = Caught(gateway, "ValueError")
    /\ UNCHANGED <<tvars, rvars, svars, fvars, globals, built, getter, stage1, loop>>

\* time.sleep(RETRY_BASE_DELAY * 2 ** attempt + jitter), then the next
\* iteration of the loop.
Backoff ==
    /\ gateway.pc = "sleep"
    /\ gateway' = [gateway EXCEPT
                      !.sleeps = Append(@, RETRY_BASE_DELAY * 2 ^ gateway.attempt),
                      !.attempt = @ + 1,
                      !.pc = "try"]
    /\ UNCHANGED <<tvars, rvars, svars, fvars, globals, built, getter, stage1, loop>>

LNext ==
    \/ \E provider \in Providers : ApiCallStart(provider)
    \/ Attempt
    \/ Backoff

\* C31 (as stated): one call sends at most 4 requests to the provider.
C31_AtMostFourAttempts == Len(gateway.requests) <= 4

\* C31 (amended): one call sends at most MAX_RETRIES + 1 = 5 requests to the
\* provider, it sleeps 2, 4, 8, 16 seconds (plus jitter) between them, it
\* raises exactly when the attempt of index MAX_RETRIES failed, and a call
\* that raised sends nothing more.
C31_AtMostFiveAttempts ==
    [][/\ Len(gateway'.requests) <= MAX_RETRIES + 1
       /\ Len(gateway'.sleeps) <= MAX_RETRIES
       /\ \A i \in 1..Len(gateway'.sleeps) :
              gateway'.sleeps[i] = RETRY_BASE_DELAY * 2 ^ (i - 1)
       /\ gateway'.pc = "raised" <=> Len(gateway'.errors) = MAX_RETRIES + 1
       /\ gateway.pc = "raised" =>
              /\ gateway'.pc = "try"
              /\ gateway'.requests = <<>>
    ]_lvars

\* C31 witness: a call to the provider that failed five times and raised
\* after four sleeps.
C31_Witness ==
    /\ gateway.pc = "raised"
    /\ gateway.provider = "anthropic"
    /\ Len(gateway.requests) = 5
    /\ Len(gateway.sleeps) = 4

\* C32: a non-retryable error (a 4xx other than 429, an unknown provider) is
\* raised by the attempt that met it: the call never sleeps and tries again
\* after one.
C32_NonRetryableSurfacesImmediately ==
    \A i \in 1..Len(gateway.errors) :
        gateway.errors[i] \in NonRetryable =>
            /\ i = Len(gateway.errors)
            /\ gateway.pc = "raised"

(***************************************************************************)
(* Lazily created provider clients and the few-shot cache: subvert.py      *)
(* 43-134, tournament.py 41-48.                                            *)
(***************************************************************************)
\* The module globals that a getter fills on its first call.
LazyGlobals == {"_anthropic_client", "_google_client", "_few_shot_cache"}

\* The threads of the pool of one warm process.
WorkerThreads == 1..2

IdleGetter == [pc |-> "idle", of |-> "none", ret |-> Absent]

\* A worker thread enters get_anthropic_client, get_google_client or
\* get_few_shot_examples.
GetterCall(t, k) ==
    /\ getter[t].pc \in {"idle", "returned"}
    /\ getter' = [getter EXCEPT ![t] = [pc |-> "test", of |-> k, ret |-> Absent]]
    /\ UNCHANGED <<tvars, rvars, svars, fvars, gateway, globals, built, stage1, loop>>

\* `if _client is None`: the test of the global, with no lock held.
TestGlobal(t) ==
    /\ getter[t].pc = "test"
    /\ getter' = [getter EXCEPT ![t].pc =
                      IF globals[getter[t].of] = Absent THEN "create" ELSE "return"]
    /\ UNCHANGED <<tvars, rvars, svars, fvars, gateway, globals, built, stage1, loop>>

\* The constructor (with its get_secret), or the store queries of the
\* few-shot examples, and the assignment of the global.  Every run makes a
\* new object: the n-th is named n.
CreateGlobal(t) ==
    /\ getter[t].pc = "create"
    /\ built' = [built EXCEPT ![getter[t].of] = @ + 1]
    /\ globals' = [globals EXCEPT ![getter[t].of] = built'[getter[t].of]]
    /\ getter' = [getter EXCEPT ![t].pc = "return"]
    /\ UNCHANGED <<tvars, rvars, svars, fvars, gateway, stage1, loop>>

\* `return _client`: the global as it is now.
ReturnGlobal(t) ==
    /\ getter[t].pc = "return"
    /\ getter' = [getter EXCEPT ![t].pc = "returned",
                                ![t].ret = globals[getter[t].of]]
    /\ UNCHANGED <<tvars, rvars, svars, fvars, gateway, globals, built, stage1, loop>>

ClientsNext ==
    \E t \in WorkerThreads :
        \/ \E k \in LazyGlobals : GetterCall(t, k)
        \/ TestGlobal(t)
        \/ CreateGlobal(t)
        \/ ReturnGlobal(t)

\* C33: on a process that started cold, the constructor of each client and
\* the store query of the few-shot cache run at most once, and all callers
\* of one getter are given the same object.
C33_CreatedOnce ==
    /\ \A k \in LazyGlobals : built[k] <= 1
    /\ \A t, u \in WorkerThreads :
          (/\ getter[t].pc = "returned"
           /\ getter[u].pc = "returned"
           /\ getter[t].of = getter[u].of) => getter[t].ret = getter[u].ret

(***************************************************************************)
(* Stage 1 of the Subvert worker: subvert.py, stage_1_brainstorm and       *)
(* parse_json_response.                                                    *)
(***************************************************************************)
\* A response text is a sequence of tokens: the brackets of a JSON array,
\* "a" an object literal of one angle ({"angle_name": ..., "setup": ...}),
\* "e" the empty object {}, "n" the literal null, and "w" a piece of prose
\* or of a markdown fence.  The commas between the items of an array are
\* left out.
Tokens == {"[", "]", "a", "e", "n", "w"}

MaxTextLen == 4

\* Longer responses: six angles, and an array of two angles in a fence.
LongTexts ==
    { <<"[", "a", "a", "a", "a", "a", "a", "]">>,
      <<"w", "[", "a", "a", "]", "w">>,
      <<"w", "w", "a", "w", "w">> }

ResponseTexts ==
    UNION {[1..n -> Tokens] : n \in 0..MaxTextLen} \cup LongTexts

\* JSON values: size is the len() of an array or of an object.
JsonNull == [kind |-> "null", size |-> 0, items |-> <<>>]
JsonObject(n) == [kind |-> "object", size |-> n, items |-> <<>>]
JsonArray(items) == [kind |-> "array", size |-> Len(items), items |-> items]
NoValue == [ok |-> FALSE, val |-> JsonNull, next |-> 0]

\* The value that starts at token i, and the index after it.
RECURSIVE ValueAt(_, _)
RECURSIVE ItemsAt(_, _, _)
ValueAt(text, i) ==
    IF i > Len(text) THEN NoValue
    ELSE CASE text[i] = "n" -> [ok |-> TRUE, val |-> JsonNull, next |-> i + 1]
           [] text[i] = "a" -> [ok |-> TRUE, val |-> JsonObject(2), next |-> i + 1]
           [] text[i] = "e" -> [ok |-> TRUE, val |-> JsonObject(0), next |-> i + 1]
           [] text[i] = "[" -> ItemsAt(text, i + 1, <<>>)
           [] OTHER -> NoValue

ItemsAt(text, i, items) ==
    IF i > Len(text) THEN NoValue
    ELSE IF text[i] = "]"
         THEN [ok |-> TRUE, val |-> JsonArray(items), next |-> i + 1]
         ELSE Then(ValueAt(text, i), LAMBDA r :
                  IF r.ok THEN ItemsAt(text, r.next, Append(items, r.val))
                  ELSE NoValue)

\* json.loads: the text is one value, or JSONDecodeError.
json_loads(text) ==
    Then(ValueAt(text, 1), LAMBDA r :
        IF r.ok /\ r.next = Len(text) + 1 THEN r ELSE NoValue)

\* str.find and str.rfind + 1 of a character that opens or closes one of
\* the given tokens; 0 for find's -1 and for rfind's -1 + 1.
Find(text, tokens) ==
    IF \E i \in 1..Len(text) : text[i] \in tokens
    THEN CHOOSE i \in 1..Len(text) :
            text[i] \in tokens /\ \A j \in 1..(i - 1) : text[j] \notin tokens
    ELSE 0

RFind(text, tokens) ==
    IF \E i \in 1..Len(text) : text[i] \in tokens
    THEN CHOOSE i \in 1..Len(text) :
            text[i] \in tokens /\ \A j \in (i + 1)..Len(text) : text[j] \notin tokens
    ELSE 0

\* parse_json_response: the whole text, else the text from the first "["
\* (or, without one, the first "{") to the last "]" (or, without one, the
\* last "}"), else the empty list.
parse_json_response(response_text) ==
    Then(json_loads(response_text), LAMBDA whole :
        IF whole.ok THEN whole.val
        ELSE LET json_start == IF Find(response_text, {"["}) # 0
                               THEN Find(response_text, {"["})
                               ELSE Find(response_text, {"a", "e"})
                 json_end   == IF RFind(response_text, {"]"}) # 0
                               THEN RFind(response_text, {"]"})
                               ELSE RFind(response_text, {"a", "e"})
                 json_str   == SubSeq(response_text, json_start, json_end)
             IN  IF json_start # 0 /\ json_end # 0 /\ json_loads(json_str).ok
                 THEN json_loads(json_str).val
                 ELSE JsonArray(<<>>))

\* The hard-coded angles: wordplay, rhyme, absurd.
DefaultAngles == JsonArray(<<JsonObject(3), JsonObject(3), JsonObject(3)>>)

\* stage_1_brainstorm after the model answered: `not angles` is true of
\* None and of an empty list or object; angles[:5] is a list for a list and
\* raises TypeError for an object.
stage_1_brainstorm(response_text) ==
    Then(parse_json_response(response_text), LAMBDA parsed :
    Then(IF parsed.size = 0 THEN DefaultAngles ELSE parsed, LAMBDA angles :
        IF angles.kind = "array"
        THEN [raised |-> FALSE, angles |-> Take(angles.items, 5)]
        ELSE [raised |-> TRUE, angles |-> <<>>]))

IdleStage1 == [pc |-> "idle", response_text |-> <<>>, raised |-> FALSE, angles |-> <<>>]

\* call_model returns a text and stage 1 runs to its end on it.
Brainstorm(text) ==
    /\ stage1.pc = "idle"
    /\ stage1' = [pc |-> "done", response_text |-> text] @@ stage_1_brainstorm(text)
    /\ UNCHANGED <<tvars, rvars, svars, fvars, gateway, globals, built, getter, loop>>

\* The worker goes on to the next story.
NextStory ==
    /\ stage1.pc = "done"
    /\ stage1' = IdleStage1
    /\ UNCHANGED <<tvars, rvars, svars, fvars, gateway, globals, built, getter, loop>>

Stage1Next ==
    \/ \E text \in ResponseTexts : Brainstorm(text)
    \/ NextStory

\* C35: for every response text, stage_1_brainstorm does not raise and
\* returns a list of 1 to 5 angles.
C35_AlwaysOneToFiveAngles ==
    stage1.pc = "done" =>
        /\ ~stage1.raised
        /\ Len(stage1.angles) \in 1..5

(***************************************************************************)
(* The while loop of run_tournament, one turn at a time.                   *)
(***************************************************************************)
IdleLoop ==
    [pc |-> "idle", seed |-> 0, candidates |-> 0, remaining |-> <<>>,
     elimination_rounds |-> <<>>, final_ordered |-> <<>>]

\* run_tournament is called with n candidates: random.shuffle.
RunTournamentStart(n, seed) ==
    /\ loop.pc = "idle"
    /\ loop' = [IdleLoop EXCEPT !.pc = "while", !.seed = seed, !.candidates = n,
                                !.remaining = Shuffle([i \in 1..n |-> i], seed)]
    /\ UNCHANGED <<tvars, rvars, svars, fvars, gateway, globals, built, getter, stage1>>

loop_continues_above_two(remaining) == Len(remaining) > 2

\* while len(remaining) > 20
loop_continues(remaining) == Len(remaining) > FINAL_ROUND_MAX

\* One turn of the loop: the groups are ranked, remaining = next_remaining.
EliminationTurn ==
    /\ loop.pc = "while"
    /\ loop_continues(loop.remaining)
    /\ \E r \in {EliminationRound(loop.remaining, loop.seed)} :
          loop' = [loop EXCEPT !.remaining = r.next_remaining,
                               !.elimination_rounds = Append(@, r.round_eliminated)]
    /\ UNCHANGED <<tvars, rvars, svars, fvars, gateway, globals, built, getter, stage1>>

\* The loop is left: the final round ranks what remains.
FinalRound ==
    /\ loop.pc = "while"
    /\ ~loop_continues(loop.remaining)
    /\ loop' = [loop EXCEPT !.pc = "done",
                            !.final_ordered = rank_group(loop.remaining, loop.seed)]
    /\ UNCHANGED <<tvars, rvars, svars, fvars, gateway, globals, built, getter, stage1>>

\* The call of the judge for a group raises after its last retry:
\* future.result() re-raises it and run_tournament ends with it.
JudgeRaises ==
    /\ loop.pc = "while"
    /\ loop' = [loop EXCEPT !.pc = "raised"]
    /\ UNCHANGED <<tvars, rvars, svars, fvars, gateway, globals, built, getter, stage1>>

RoundsNext ==
    \/ \E n \in 2..MaxPool, seed \in JudgeSeeds : RunTournamentStart(n, seed)
    \/ EliminationTurn
    \/ FinalRound
    \/ JudgeRaises

\* C37: every call of run_tournament with 2 or more candidates leaves its
\* loop and ends, with its ranking or with the exception of the judge; every
\* turn of its loop starts with n > 20 headlines and leaves
\* 3 * round(n / 15) < n of them; a final round that follows at least one
\* turn ranks 3 to 20 headlines.
C37_LoopTerminates ==
    /\ []<>(loop.pc # "while")
    /\ [][(loop.pc = "while" /\ loop'.pc = "while") =>
             \E n \in {Len(loop.remaining)} :
                /\ n > FINAL_ROUND_MAX
                /\ Len(loop'.remaining) = ADVANCE_COUNT * NumGroups(n)
                /\ Len(loop'.remaining) < n]_lvars
    /\ [](loop.pc = "done" =>
             /\ Range(loop.final_ordered) = Range(loop.remaining)
             /\ Len(loop.final_ordered) = Len(loop.remaining)
             /\ Len(loop.final_ordered) <= FINAL_ROUND_MAX
             /\ loop.elimination_rounds # <<>> =>
                   Len(loop.final_ordered) >= ADVANCE_COUNT)
    /\ \A n \in (FINAL_ROUND_MAX + 1)..MaxPool : ADVANCE_COUNT * NumGroups(n) < n

\* C37 witness: a call with 130 candidates went through two turns of the
\* loop, 130 -> 27 -> 6, and ranked 6 in its final round.
C37_Witness ==
    /\ loop.pc = "done"
    /\ loop.candidates = MaxPool
    /\ Len(loop.elimination_rounds) = 2
    /\ Len(loop.final_ordered) = 6

(***************************************************************************)
(* Specifications.                                                         *)
(***************************************************************************)
\* The components that a specification leaves at rest.
TIdle ==
    /\ headlines = <<>>
    /\ today = 1
    /\ hour = 20
    /\ run = [r \in Slots |-> IdleRun]
    /\ arrivals = 0
    /\ rng = 1
    /\ runs = 0

RIdle == sel = IdleSel

SIdle == SInit

FIdle ==
    /\ stories = {}
    /\ fetcher = IdleFetcher
    /\ upstream = [pages |-> 0, size |-> 1, images |-> TRUE]
    /\ sort_key = "StoryId"

LIdle ==
    /\ gateway = IdleGateway
    /\ globals = [k \in LazyGlobals |-> Absent]
    /\ built = [k \in LazyGlobals |-> 0]
    /\ getter = [t \in WorkerThreads |-> IdleGetter]
    /\ stage1 = IdleStage1
    /\ loop = IdleLoop

\* Tournament runs of a day one at a time.
Init == TInit /\ RIdle /\ SIdle /\ FIdle /\ LIdle

Next == TNext

Spec == Init /\ [][Next]_vars

\* Tournament runs that overlap.
NextConc == TNextConc

SpecConc == Init /\ [][NextConc]_vars

\* Tournament runs that overlap, the second one started by headlines that
\* arrive while the first one polishes.
NextConcPolish == TNextConc \/ ArriveDuringPolish

SpecConcPolish == Init /\ [][NextConcPolish]_vars

\* Tournament runs one at a time on a store that receives headlines of any
\* day: the stream trigger keeps invoking the handler, and time passes.
SpecDated ==
    /\ Init
    /\ [][TNextDated]_vars
    /\ WF_vars(SkipRun(1) \/ Tournament)
    /\ WF_vars(Tick \/ NextDay)

\* One invocation of the tournament on a day of a chosen pool.
InitPools == PInit /\ RIdle /\ SIdle /\ FIdle /\ LIdle

SpecPools == InitPools /\ [][PNext]_vars

\* One invocation of the tournament on a day of new headlines, with a
\* judge of a chosen behaviour.
InitJudge == JInit /\ RIdle /\ SIdle /\ FIdle /\ LIdle

SpecJudge == InitJudge /\ [][JNext]_vars

\* Calls of select_headlines.
InitReader == TIdle /\ RInit /\ SIdle /\ FIdle /\ LIdle

SpecReader == InitReader /\ [][RNext]_vars

\* Requests to get.
InitGet == TIdle /\ GInit /\ SIdle /\ FIdle /\ LIdle

SpecGet == InitGet /\ [][GNext]_vars

\* Subvert invocations one at a time.
InitSubvert == TIdle /\ RIdle /\ SInit /\ FIdle /\ LIdle

SpecSubvert == InitSubvert /\ [][SNext]_vars

\* Subvert invocations one at a time, in which a store write may fail.
SpecSubvertFailing == InitSubvert /\ [][SNextFailing]_vars

\* Subvert invocations that overlap.
SpecSubvertConc == InitSubvert /\ [][SNextConc]_vars

\* Runs of the Story Ingestor.
InitFetch == TIdle /\ RIdle /\ SIdle /\ FInit /\ LIdle

SpecFetch == InitFetch /\ [][FNext]_vars

\* Runs of the Story Ingestor in which a call may fail.
SpecFetchFailing == InitFetch /\ [][FNextFailing]_vars

\* Calls of the judge gateway.
InitGateway == TIdle /\ RIdle /\ SIdle /\ FIdle /\ LIdle

SpecGateway == InitGateway /\ [][LNext]_vars

\* Worker threads of one process that call the lazy getters.
SpecClients == InitGateway /\ [][ClientsNext]_vars

\* Calls of stage 1 of the Subvert worker.
SpecStage1 == InitGateway /\ [][Stage1Next]_vars

\* Calls of run_tournament: a call that has started proceeds.
SpecRounds ==
    InitGateway /\ [][RoundsNext]_vars /\ WF_vars(EliminationTurn \/ FinalRound)

=============================================================================
